---- MODULE Spec2Model ----
(***************************************************************************)
(* The meta-layer graph engine of meta_models: per-class instance          *)
(* counters and namespace prefixes, the memoized bottom-up space()         *)
(* aggregation with default elision, the memoized build() with keyword     *)
(* filtering, reset(), the block construction procedures, and the          *)
(* MetaModel orchestration on top of them.                                 *)
(*                                                                         *)
(* Conventions.                                                            *)
(*  - A Python str is a sequence of symbols.  Class names and the words    *)
(*    of parameter names are single symbols, every decimal digit and the   *)
(*    separator are symbols of their own, so startswith and slicing work   *)
(*    on them as on characters.                                            *)
(*  - A Python dict is a function whose DOMAIN is its key set.             *)
(*  - An optional attribute is None (<<>>) or Some(v) (<<v>>).             *)
(*  - A number is kept in two-hundredths: the integer h stands for h/200, *)
(*    so that 0.01 and 0.5 are exact and int() and round() of a sampled   *)
(*    real are real conversions.                                           *)
(*  - A Keras tensor is a handle (a positive integer) into `tensors`;      *)
(*    two handles are the same object iff they are equal.                  *)
(***************************************************************************)
EXTENDS Integers, Sequences, FiniteSets, TLC

VARIABLES
    layer_ids,  \* MetaLayer.layer_ids: class name -> next instance id
    layers,     \* the MetaLayer objects, in order of construction
    models,     \* the MetaModel objects, in order of construction
    tensors,    \* the Keras tensors alive: handle -> the operation behind it
    epoch,      \* history: the number of reset_counter calls so far
    ret,        \* history: the last call, its arguments, its outcome, what it invoked
    builds,     \* history: the number of build calls a bounded run has made
    tuners      \* the Tuner objects, in order of construction

vars == <<layer_ids, layers, models, tensors, epoch, ret, builds, tuners>>

----------------------------------------------------------------------------
(* Python values                                                           *)

None == <<>>
Some(v) == <<v>>
Get(o) == o[1]

EmptyDict == [k \in {} |-> 0]

Items(keys, F(_)) == [k \in keys |-> F(k)]

\* {**a, **b}: the entries of b win.
DictMerge(a, b) ==
    [k \in DOMAIN a \cup DOMAIN b |-> IF k \in DOMAIN b THEN b[k] ELSE a[k]]

Abs(i) == IF i < 0 THEN -i ELSE i

\* v bound to a name: K(v).
Bind(v, K(_)) == K(v)

\* A call whose outcome r is an exception ends the caller; otherwise K(r).
Then(r, K(_)) == IF r.exc # "ok" THEN r ELSE K(r)

Range(s) == {s[i] : i \in DOMAIN s}

\* The whole number n, and the real n + c/200.
Whole(n) == 200 * n
Real(n, c) == 200 * n + c

\* int(x) of a non-negative real: truncation.
int(h) == h \div 200

\* round(x): to the nearest integer, a tie to the even one.
round(h) ==
    LET q == h \div 200
        r == h % 200
    IN  IF r < 100 THEN q
        ELSE IF r > 100 THEN q + 1
        ELSE IF q % 2 = 0 THEN q ELSE q + 1

\* np.isclose(a, b): |a - b| <= atol + rtol * |b| with atol = 1e-8 and
\* rtol = 1e-5.  With both sides counted in two-hundredths the test is
\* |a - b| * 10^5 <= |b| + 0.000002, that is |a - b| <= |b| div 10^5.
isclose(a, b) == Abs(a - b) <= Abs(b) \div 100000

Digit(d) ==
    CASE d = 0 -> "0" [] d = 1 -> "1" [] d = 2 -> "2" [] d = 3 -> "3"
      [] d = 4 -> "4" [] d = 5 -> "5" [] d = 6 -> "6" [] d = 7 -> "7"
      [] d = 8 -> "8" [] d = 9 -> "9"

\* str(n) of a non-negative int: its decimal digits.
RECURSIVE str(_)
str(n) == IF n < 10 THEN <<Digit(n)>> ELSE str(n \div 10) \o <<Digit(n % 10)>>

\* separator.join((a, b))
join(separator, a, b) == a \o separator \o b

startswith(key, prefix) ==
    /\ Len(key) >= Len(prefix)
    /\ SubSeq(key, 1, Len(prefix)) = prefix

\* key[n:]
slice_from(key, n) == SubSeq(key, n + 1, Len(key))

----------------------------------------------------------------------------
(* Class names                                                             *)

InputMetaLayer == "InputMetaLayer"
DenseMetaLayer == "DenseMetaLayer"
DenseRectangularMetaLayer == "DenseRectangularMetaLayer"
HeadMetaLayer == "HeadMetaLayer"
ConcatenateMetaLayer == "ConcatenateMetaLayer"
MaxPool1DMetaLayer == "MaxPool1DMetaLayer"
DropoutMetaLayer == "DropoutMetaLayer"
Conv1DMetaLayer == "Conv1DMetaLayer"
Conv1DResidualMetaLayer == "Conv1DResidualMetaLayer"
Conv1DRectangularMetaLayer == "Conv1DRectangularMetaLayer"
Conv2DRectangularMetaLayer == "Conv2DRectangularMetaLayer"
MaxPool2DMetaLayer == "MaxPool2DMetaLayer"
FlattenMetaLayer == "FlattenMetaLayer"

\* issubclass(cls, DenseMetaLayer)
IsDense(cls) == cls \in {DenseMetaLayer, DenseRectangularMetaLayer, HeadMetaLayer}

\* issubclass(cls, Conv1DMetaLayer)
IsConv1D(cls) ==
    cls \in {Conv1DMetaLayer, Conv1DResidualMetaLayer, Conv1DRectangularMetaLayer}

\* The meta-layer a rectangular convolutional block constructs for itself in
\* its __init__ (self._max_pooling): its class, or None.
max_pooling_class(cls) ==
    CASE cls = Conv1DRectangularMetaLayer -> Some(MaxPool1DMetaLayer)
      [] cls = Conv2DRectangularMetaLayer -> Some(MaxPool2DMetaLayer)
      [] OTHER -> None

\* distributions.real / integer / choice
distribution_names == {"real", "integer", "choice"}

----------------------------------------------------------------------------
(* Construction-time configuration                                         *)

\* The keyword defaults of the __init__ chain of each class.
Defaults(cls) ==
    LET dense == [min_units |-> Whole(0), max_units |-> Whole(512),
                  min_l1_regularization |-> 0, max_l1_regularization |-> Real(0, 2),
                  min_l2_regularization |-> 0, max_l2_regularization |-> Real(0, 2),
                  batch_normalization |-> FALSE, activity_regularizer |-> FALSE,
                  kernel_regularizer |-> FALSE, bias_regularizer |-> FALSE]
        regularized == [min_l1_regularization |-> 0, max_l1_regularization |-> Real(0, 2),
                        min_l2_regularization |-> 0, max_l2_regularization |-> Real(0, 2),
                        min_dropout_rate |-> 0, max_dropout_rate |-> Real(0, 100),
                        batch_normalization |-> FALSE, activity_regularizer |-> FALSE,
                        kernel_regularizer |-> FALSE, bias_regularizer |-> FALSE,
                        dropout |-> FALSE]
        conv1d == [min_filters |-> Whole(0), max_filters |-> Whole(256),
                   min_kernel_size |-> Whole(1), max_kernel_size |-> Whole(12)]
    IN  CASE cls = DenseMetaLayer -> dense
          [] cls = DenseRectangularMetaLayer ->
                DictMerge(dense, [min_layers |-> Whole(0), max_layers |-> Whole(5),
                                  residual |-> FALSE])
          [] cls = HeadMetaLayer -> DictMerge(dense, [units |-> Whole(1)])
          [] cls = Conv1DMetaLayer -> DictMerge(regularized, conv1d)
          [] cls = Conv1DResidualMetaLayer ->
                DictMerge(DictMerge(regularized, conv1d),
                          [min_layers |-> Whole(0), max_layers |-> Whole(5),
                           min_strides |-> Whole(1), max_strides |-> Whole(4)])
          [] cls = Conv1DRectangularMetaLayer ->
                DictMerge(DictMerge(regularized, conv1d),
                          [min_layers |-> Whole(0), max_layers |-> Whole(3),
                           min_strides |-> Whole(1), max_strides |-> Whole(4),
                           min_pool_size |-> Whole(0), max_pool_size |-> Whole(8),
                           strides |-> FALSE, max_pooling |-> TRUE, residual |-> FALSE])
          [] cls = Conv2DRectangularMetaLayer ->
                DictMerge(regularized,
                          [min_filters |-> Whole(0), max_filters |-> Whole(256),
                           min_x_kernel_size |-> Whole(1), max_x_kernel_size |-> Whole(12),
                           min_y_kernel_size |-> Whole(1), max_y_kernel_size |-> Whole(4),
                           min_layers |-> Whole(0), max_layers |-> Whole(3),
                           min_x_strides |-> Whole(1), max_x_strides |-> Whole(4),
                           min_y_strides |-> Whole(1), max_y_strides |-> Whole(4),
                           min_x_pool_size |-> Whole(1), max_x_pool_size |-> Whole(8),
                           min_y_pool_size |-> Whole(1), max_y_pool_size |-> Whole(4),
                           strides |-> FALSE, max_pooling |-> TRUE, residual |-> FALSE])
          [] cls = MaxPool1DMetaLayer ->
                [min_pool_size |-> Whole(1), max_pool_size |-> Whole(8), enabled |-> TRUE]
          [] cls = DropoutMetaLayer ->
                [min_dropout_rate |-> 0, max_dropout_rate |-> Real(0, 100),
                 enabled |-> TRUE]
          [] OTHER -> EmptyDict

\* "if not strides: min_strides = max_strides = 1" and, in the __init__ of the
\* block's MaxPool1DMetaLayer, "if not enabled: max_pool_size = min_pool_size = 0".
Conv1DRectangular_attributes(a) ==
    Bind(IF a.strides THEN a
         ELSE [a EXCEPT !.min_strides = Whole(1), !.max_strides = Whole(1)],
         LAMBDA b :
        IF b.max_pooling THEN b
        ELSE [b EXCEPT !.min_pool_size = 0, !.max_pool_size = 0])

\* The same for the two axes of Conv2DRectangularMetaLayer and its
\* MaxPool2DMetaLayer.
Conv2DRectangular_attributes(a) ==
    Bind(IF a.strides THEN a
         ELSE [a EXCEPT !.min_x_strides = Whole(1), !.max_x_strides = Whole(1),
                        !.min_y_strides = Whole(1), !.max_y_strides = Whole(1)],
         LAMBDA b :
        IF b.max_pooling THEN b
        ELSE [b EXCEPT !.min_x_pool_size = 0, !.max_x_pool_size = 0,
                       !.min_y_pool_size = 0, !.max_y_pool_size = 0])

\* The attributes the __init__ chain of cls stores, given the caller's kwargs.
\* The MaxPool meta-layer of a rectangular convolutional block is kept as its
\* attributes among those of the block.
Attributes(cls, kwargs) ==
    LET a == DictMerge(Defaults(cls), kwargs)
    IN  CASE cls = HeadMetaLayer ->
                [a EXCEPT !.min_units = a.units, !.max_units = a.units]
          [] cls = Conv1DRectangularMetaLayer -> Conv1DRectangular_attributes(a)
          [] cls = Conv2DRectangularMetaLayer -> Conv2DRectangular_attributes(a)
          [] cls = MaxPool1DMetaLayer /\ ~a.enabled ->
                [a EXCEPT !.min_pool_size = 0, !.max_pool_size = 0]
          [] cls = DropoutMetaLayer /\ ~a.enabled ->
                [a EXCEPT !.min_dropout_rate = 0, !.max_dropout_rate = 0]
          [] OTHER -> a

----------------------------------------------------------------------------
(* MetaLayer: construction, wiring, namespace                              *)

\* Artifacts: Python None, one tensor (of: its handle), or a list (of: its
\* items, artifacts themselves).
NoLayer == [kind |-> "none", of |-> <<>>]
One(h) == [kind |-> "one", of |-> <<h>>]
List(items) == [kind |-> "list", of |-> items]

\* The handles of the tensors an artifact holds, in order.
RECURSIVE Handles(_)
RECURSIVE HandlesOf(_, _)
Handles(artifact) ==
    IF artifact.kind = "list" THEN HandlesOf(artifact.of, 1) ELSE artifact.of

HandlesOf(items, i) ==
    IF i > Len(items) THEN <<>> ELSE Handles(items[i]) \o HandlesOf(items, i + 1)

\* MetaLayer.layer_ids.get(cls, 0)
ids_get(ids, cls) == IF cls \in DOMAIN ids THEN ids[cls] ELSE 0

\* The object MetaLayer.__init__ leaves behind.  `epoch` is not an attribute:
\* it records how many reset_counter calls preceded the construction.
NewMetaLayer(ids, cls, kwargs, separator, ep) ==
    [cls |-> cls,
     attrs |-> Attributes(cls, kwargs),
     _input_layers |-> <<>>,
     _rendered_space |-> None,
     _rendered_defaults |-> None,
     _layer |-> NoLayer,
     _separator |-> separator,
     _id |-> ids_get(ids, cls),
     epoch |-> ep]

\* A constructor that forgets to advance the counter.
ids_after_stuck(ids, cls) == DictMerge(ids, [c \in {cls} |-> ids_get(ids, cls)])

\* MetaLayer.layer_ids after MetaLayer.__init__ of a cls instance; the
\* MaxPool meta-layer a rectangular convolutional block constructs takes an
\* id of its own class.
ids_after(ids, cls) ==
    Bind(DictMerge(ids, [c \in {cls} |-> ids_get(ids, cls) + 1]), LAMBDA own :
        IF max_pooling_class(cls) = None THEN own
        ELSE DictMerge(own, [c \in {Get(max_pooling_class(cls))} |->
                                ids_get(own, Get(max_pooling_class(cls))) + 1]))

\* "if isinstance(input_layers, MetaLayer): input_layers = [input_layers]":
\* the argument of __call__ is One(p), a meta-layer, or List(ps), a list.
wrapped(argument) == IF argument.kind = "one" THEN <<argument.of[1]>> ELSE argument.of

\* MetaLayer.__call__: a single meta-layer is wrapped in a list.
call(layer, input_layers) == [layer EXCEPT !._input_layers = input_layers]

\* MetaLayer.reset_counter
reset_counter == EmptyDict

layer_prefix(layer) == join(layer._separator, <<layer.cls>>, str(layer._id))

\* MetaLayer._filter_relevant_kwargs
filter_relevant_kwargs(layer, kwargs) ==
    LET prefix == layer_prefix(layer)
        cut == Len(prefix) + Len(layer._separator)
        relevant == {key \in DOMAIN kwargs : startswith(key, prefix)}
    IN  [local \in {slice_from(key, cut) : key \in relevant} |->
            kwargs[CHOOSE key \in relevant : slice_from(key, cut) = local]]

\* A reset that forgets the predecessors.
reset_shallow(ls, n) == [ls EXCEPT ![n]._layer = NoLayer]

\* MetaLayer.reset: the predecessors first, then this layer.
RECURSIVE reset(_, _)
RECURSIVE reset_all(_, _, _)
reset(ls, n) ==
    [reset_all(ls, ls[n]._input_layers, 1) EXCEPT ![n]._layer = NoLayer]

reset_all(ls, ns, i) ==
    IF i > Len(ns) THEN ls ELSE reset_all(reset(ls, ns[i]), ns, i + 1)

\* The nodes reset(n) and build(n) walk: n and its ancestors.
RECURSIVE Subgraph(_, _)
Subgraph(ls, n) ==
    {n} \cup UNION {Subgraph(ls, ls[n]._input_layers[i]) : i \in DOMAIN ls[n]._input_layers}

----------------------------------------------------------------------------
(* Space declaration and aggregation                                       *)

\* Local parameter names.
units == <<"units">>
layers_ == <<"layers">>
filters == <<"filters">>
strides == <<"strides">>
kernel_size == <<"kernel", "_", "size">>
pool_size == <<"pool", "_", "size">>
dropout_rate == <<"dropout", "_", "rate">>
input_layers_ == <<"input", "_", "layers">>
x_kernel_size == <<"x", "_", "kernel", "_", "size">>
y_kernel_size == <<"y", "_", "kernel", "_", "size">>
x_strides == <<"x", "_", "strides">>
y_strides == <<"y", "_", "strides">>
x_pool_size == <<"x", "_", "pool", "_", "size">>
y_pool_size == <<"y", "_", "pool", "_", "size">>

Ok(v) == [exc |-> "ok", val |-> v]
Raise(e) == [exc |-> e, val |-> None]

\* A chain that keeps the last map only: the declarations of the layer itself.
own_map_only(maps) == IF maps = <<>> THEN EmptyDict ELSE maps[Len(maps)]

\* dict(ChainMap(*maps)): a key takes its value from the first map holding it.
RECURSIVE ChainMap(_)
ChainMap(maps) ==
    IF maps = <<>> THEN EmptyDict ELSE DictMerge(ChainMap(Tail(maps)), Head(maps))

\* RegularizedMetaLayer._active_regularizers
active_regularizers(a) ==
    SelectSeq(<<"activity", "kernel", "bias">>,
              LAMBDA r : CASE r = "activity" -> a.activity_regularizer
                           [] r = "kernel" -> a.kernel_regularizer
                           [] r = "bias" -> a.bias_regularizer)

\* RegularizedMetaLayer._active_regularizer_types: "<regularizer>_l1", "<regularizer>_l2"
active_regularizer_types(r) ==
    << <<r, "_", "regularizer", "_", "l1">>, <<r, "_", "regularizer", "_", "l2">> >>

\* RegularizedMetaLayer._space
Regularized_space(a) ==
    LET regs == active_regularizers(a)
        of(r) == [name \in Range(active_regularizer_types(r)) |->
                    IF name = active_regularizer_types(r)[1]
                    THEN <<a.min_l1_regularization, a.max_l1_regularization>>
                    ELSE <<a.min_l2_regularization, a.max_l2_regularization>>]
        rate == IF a.dropout
                THEN [name \in {dropout_rate} |-> <<a.min_dropout_rate, a.max_dropout_rate>>]
                ELSE EmptyDict
    IN  ChainMap([i \in 1..Len(regs) |-> of(regs[i])] \o <<rate>>)

\* DenseMetaLayer._space: the key template "{regularizer}_{reg_type}".format()
\* is formatted without arguments, which raises KeyError as soon as one
\* regularizer is enabled.
Dense_space(a) ==
    IF a.activity_regularizer \/ a.kernel_regularizer \/ a.bias_regularizer
    THEN Raise("KeyError")
    ELSE Ok([name \in {units} |-> <<a.min_units, a.max_units>>])

\* DenseRectangularMetaLayer._space
DenseRectangular_space(a) ==
    LET super == Dense_space(a)
    IN  IF super.exc # "ok" THEN super
        ELSE Ok(DictMerge(super.val,
                          [name \in {layers_} |-> <<a.min_layers, a.max_layers>>]))

\* Conv1DMetaLayer._space
Conv1D_space(a) ==
    DictMerge([name \in {filters, kernel_size} |->
                  IF name = filters THEN <<a.min_filters, a.max_filters>>
                  ELSE <<a.min_kernel_size, a.max_kernel_size>>],
              Regularized_space(a))

\* Conv1DResidualMetaLayer._space
Conv1DResidual_space(a) ==
    DictMerge(Conv1D_space(a),
              [name \in {strides, layers_} |->
                  IF name = strides THEN <<a.min_strides, a.max_strides>>
                  ELSE <<a.min_layers, a.max_layers>>])

\* MaxPool1DMetaLayer._space
MaxPool1D_space(a) ==
    [name \in {pool_size} |-> <<"integer", a.min_pool_size, a.max_pool_size>>]

\* MaxPool2DMetaLayer._space
MaxPool2D_space(a) ==
    [name \in {x_pool_size, y_pool_size} |->
        IF name = x_pool_size THEN <<"integer", a.min_x_pool_size, a.max_x_pool_size>>
        ELSE <<"integer", a.min_y_pool_size, a.max_y_pool_size>>]

\* Conv1DRectangularMetaLayer._space: the pairs of Conv1DMetaLayer, its own
\* triples and the triple of its MaxPool1DMetaLayer.
Conv1DRectangular_space(a) ==
    DictMerge(DictMerge(Conv1D_space(a),
                        [name \in {strides, layers_} |->
                            IF name = strides
                            THEN <<"integer", a.min_strides, a.max_strides>>
                            ELSE <<"integer", a.min_layers, a.max_layers>>]),
              MaxPool1D_space(a))

\* Conv2DMetaLayer._space
Conv2D_space(a) ==
    DictMerge([name \in {filters, x_kernel_size, y_kernel_size} |->
                  CASE name = filters -> <<"integer", a.min_filters, a.max_filters>>
                    [] name = x_kernel_size ->
                          <<"integer", a.min_x_kernel_size, a.max_x_kernel_size>>
                    [] name = y_kernel_size ->
                          <<"integer", a.min_y_kernel_size, a.max_y_kernel_size>>],
              Regularized_space(a))

\* Conv2DRectangularMetaLayer._space
Conv2DRectangular_space(a) ==
    DictMerge(DictMerge(Conv2D_space(a),
                        [name \in {x_strides, y_strides, layers_} |->
                            CASE name = x_strides ->
                                    <<"integer", a.min_x_strides, a.max_x_strides>>
                              [] name = y_strides ->
                                    <<"integer", a.min_y_strides, a.max_y_strides>>
                              [] name = layers_ ->
                                    <<"integer", a.min_layers, a.max_layers>>]),
              MaxPool2D_space(a))

\* DropoutMetaLayer._space
Dropout_space(a) ==
    [name \in {dropout_rate} |-> <<"real", a.min_dropout_rate, a.max_dropout_rate>>]

\* layer._space(), dispatched on the class of the layer.
local_space(layer) ==
    LET a == layer.attrs
    IN  CASE layer.cls \in {DenseMetaLayer, HeadMetaLayer} -> Dense_space(a)
          [] layer.cls = DenseRectangularMetaLayer -> DenseRectangular_space(a)
          [] layer.cls = Conv1DMetaLayer -> Ok(Conv1D_space(a))
          [] layer.cls = Conv1DResidualMetaLayer -> Ok(Conv1DResidual_space(a))
          [] layer.cls = Conv1DRectangularMetaLayer -> Ok(Conv1DRectangular_space(a))
          [] layer.cls = Conv2DRectangularMetaLayer -> Ok(Conv2DRectangular_space(a))
          [] layer.cls = MaxPool1DMetaLayer -> Ok(MaxPool1D_space(a))
          [] layer.cls = DropoutMetaLayer -> Ok(Dropout_space(a))
          [] OTHER -> Ok(EmptyDict)

\* The keys of layer_space, prefixed with the namespace of the layer.
namespaced(layer, local) ==
    [key \in {join(layer._separator, layer_prefix(layer), name) : name \in DOMAIN local} |->
        local[CHOOSE name \in DOMAIN local :
                join(layer._separator, layer_prefix(layer), name) = key]]

\* A partition that keeps every declaration in the space.
no_defaults(layer_space) == [exc |-> "ok", val |-> [k \in {} |-> 0]]

\* The partition of MetaLayer.space: "for key, (first, second) in ..." unpacks
\* every declaration into exactly two values.
rendered_defaults(layer_space) ==
    IF \E key \in DOMAIN layer_space : Len(layer_space[key]) # 2
    THEN Raise("ValueError")
    ELSE Ok([key \in {k \in DOMAIN layer_space :
                        isclose(layer_space[k][1], layer_space[k][2])} |->
                layer_space[key][1]])

\* What a space() call leaves: the layers, the _space invocations made so far
\* (`calls`), an outcome and the returned mapping.
Spaced(ls, calls, exc, val) == [ls |-> ls, calls |-> calls, exc |-> exc, val |-> val]

\* The record of one self._space() invocation, of layer n.
Declaration(n) == [node |-> n, input_layers |-> NoLayer, kwargs |-> EmptyDict]

\* "if self._rendered_space is None" of MetaLayer.space, negated.
has_rendered_space(layer) == layer._rendered_space # None

\* MetaLayer.space
RECURSIVE space(_, _, _)
RECURSIVE space_all(_, _, _, _, _)
space(ls, calls, n) ==
    IF has_rendered_space(ls[n])
    THEN Spaced(ls, calls, "ok", Get(ls[n]._rendered_space))
    ELSE
      Bind(local_space(ls[n]), LAMBDA local :
      Bind(Append(calls, Declaration(n)), LAMBDA declared :
        IF local.exc # "ok" THEN Spaced(ls, declared, local.exc, None)
        ELSE
          Bind(namespaced(ls[n], local.val), LAMBDA layer_space :
          Then(space_all(ls, declared, ls[n]._input_layers, 1, <<>>), LAMBDA previous :
          Bind(rendered_defaults(layer_space), LAMBDA defaults :
            IF defaults.exc # "ok"
            THEN Spaced(previous.ls, previous.calls, defaults.exc, None)
            ELSE
              Bind(ChainMap(previous.val \o <<layer_space>>), LAMBDA whole :
              Bind([key \in DOMAIN whole \ DOMAIN defaults.val |-> whole[key]],
                   LAMBDA mapping :
                Spaced([previous.ls EXCEPT
                          ![n]._rendered_defaults = Some(defaults.val),
                          ![n]._rendered_space = Some(mapping)],
                       previous.calls, "ok", mapping))))))))

\* [layer.space() for layer in self._input_layers]
space_all(ls, calls, ns, i, acc) ==
    IF i > Len(ns) THEN Spaced(ls, calls, "ok", acc)
    ELSE Then(space(ls, calls, ns[i]), LAMBDA one :
            space_all(one.ls, one.calls, ns, i + 1, Append(acc, one.val)))

----------------------------------------------------------------------------
(* The external layer library                                              *)

\* A construction step leaves the tensors, an outcome and a value.
Step(ts, exc, val) == [ts |-> ts, exc |-> exc, val |-> val]

Fresh(ts) == CHOOSE h \in 1..(Cardinality(DOMAIN ts) + 1) :
                /\ h \notin DOMAIN ts
                /\ \A g \in 1..(h - 1) : g \in DOMAIN ts

\* op(**args)(inputs): a new tensor.  ctx names the meta-layer whose _build
\* made the call and the assignment of the build() call it ran under.
Keras(ts, op, args, inputs, ctx) ==
    LET h == Fresh(ts)
    IN  Step(DictMerge(ts, [g \in {h} |->
                              [op |-> op, args |-> args, inputs |-> inputs,
                               by |-> ctx.by, kw |-> ctx.kw]]),
             "ok", One(h))

\* A layer called on one tensor; anything else is refused by the library.
Layer(ts, op, args, input, ctx) ==
    IF input.kind # "one" THEN Step(ts, "KerasError", NoLayer)
    ELSE Keras(ts, op, args, input.of, ctx)

\* Add()([first, hidden])
Add(ts, first, hidden, ctx) ==
    IF first.kind # "one" \/ hidden.kind # "one" THEN Step(ts, "KerasError", NoLayer)
    ELSE Keras(ts, "Add", EmptyDict, first.of \o hidden.of, ctx)

----------------------------------------------------------------------------
(* Construction procedures                                                 *)

\* Python's binding of _build(input_layers=..., **kwargs) to a signature.
Binds(kwargs, required, optional, var_keyword) ==
    /\ required \subseteq DOMAIN kwargs
    /\ input_layers_ \notin DOMAIN kwargs
    /\ var_keyword \/ DOMAIN kwargs \subseteq required \cup optional

Without(kwargs, names) == [name \in DOMAIN kwargs \ names |-> kwargs[name]]

\* BatchNormalization when enabled, then Activation.
Activated(a, r, ctx) ==
    Then(r, LAMBDA layer :
    Then(IF a.batch_normalization
         THEN Layer(layer.ts, "BatchNormalization", EmptyDict, layer.val, ctx)
         ELSE layer,
         LAMBDA normal : Layer(normal.ts, "Activation", EmptyDict, normal.val, ctx)))

\* InputMetaLayer._build(**kwargs)
Input_build(a, ts, input_layers, kwargs, ctx) ==
    Keras(ts, "Input", EmptyDict, <<>>, ctx)

\* ConcatenateMetaLayer._build(input_layers, **kwargs)
Concatenate_build(a, ts, input_layers, kwargs, ctx) ==
    IF ~Binds(kwargs, {}, {}, TRUE) THEN Step(ts, "TypeError", NoLayer)
    ELSE IF input_layers.kind = "none" THEN Step(ts, "KerasError", NoLayer)
    ELSE Keras(ts, "Concatenate", EmptyDict, Handles(input_layers), ctx)

\* DenseMetaLayer._build(input_layers, units)
Dense_build(a, ts, input_layers, kwargs, ctx) ==
    IF ~Binds(kwargs, {units}, {}, FALSE) THEN Step(ts, "TypeError", NoLayer)
    ELSE IF int(kwargs[units]) = 0 THEN Step(ts, "ok", input_layers)
    ELSE Activated(a, Layer(ts, "Dense", [units |-> int(kwargs[units])],
                            input_layers, ctx), ctx)

\* for _ in range(1, layers - 1): hidden = super()._build(hidden, units, **kwargs)
RECURSIVE Dense_loop(_, _, _, _, _)
Dense_loop(a, hidden, times, kwargs, ctx) ==
    IF times <= 0 THEN hidden
    ELSE Then(Dense_build(a, hidden.ts, hidden.val, kwargs, ctx), LAMBDA next :
            Dense_loop(a, next, times - 1, kwargs, ctx))

\* A block whose residual sum takes the input of the block instead of the
\* output of its first layer.
DenseRectangular_build_skip(a, ts, input_layers, kwargs, ctx) ==
    IF ~Binds(kwargs, {units, layers_}, {}, TRUE) THEN Step(ts, "TypeError", NoLayer)
    ELSE IF round(kwargs[layers_]) = 0 THEN Step(ts, "ok", input_layers)
    ELSE
      Bind(Without(kwargs, {layers_}), LAMBDA inner :
      Then(Dense_build(a, ts, input_layers, inner, ctx), LAMBDA first :
      Then(Dense_loop(a, first, round(kwargs[layers_]) - 2, inner, ctx), LAMBDA hidden :
        IF round(kwargs[layers_]) <= 2 THEN hidden
        ELSE Then(IF a.residual THEN Add(hidden.ts, input_layers, hidden.val, ctx)
                  ELSE hidden,
                  LAMBDA sum : Dense_build(a, sum.ts, sum.val, inner, ctx)))))

\* DenseRectangularMetaLayer._build(input_layers, units, layers, **kwargs)
DenseRectangular_build(a, ts, input_layers, kwargs, ctx) ==
    IF ~Binds(kwargs, {units, layers_}, {}, TRUE) THEN Step(ts, "TypeError", NoLayer)
    ELSE IF round(kwargs[layers_]) = 0 THEN Step(ts, "ok", input_layers)
    ELSE
      Bind(Without(kwargs, {layers_}), LAMBDA inner :
      Then(Dense_build(a, ts, input_layers, inner, ctx), LAMBDA first :
      Then(Dense_loop(a, first, round(kwargs[layers_]) - 2, inner, ctx), LAMBDA hidden :
        IF round(kwargs[layers_]) <= 2 THEN hidden
        ELSE Then(IF a.residual THEN Add(hidden.ts, first.val, hidden.val, ctx)
                  ELSE hidden,
                  LAMBDA sum : Dense_build(a, sum.ts, sum.val, inner, ctx)))))

\* RegularizedMetaLayer._build_regularizers reads kwargs[name] for both
\* types of every active regularizer.
regularizers_given(a, kwargs) ==
    Bind(active_regularizers(a), LAMBDA regs :
        \A i \in DOMAIN regs :
            Range(active_regularizer_types(regs[i])) \subseteq DOMAIN kwargs)

\* Conv1DMetaLayer._build(input_layers, filters, kernel_size, strides=1, **kwargs)
Conv1D_build(a, ts, input_layers, kwargs, ctx) ==
    IF ~Binds(kwargs, {filters, kernel_size}, {strides}, TRUE)
    THEN Step(ts, "TypeError", NoLayer)
    ELSE IF int(kwargs[filters]) = 0 THEN Step(ts, "ok", input_layers)
    ELSE IF ~regularizers_given(a, kwargs) THEN Step(ts, "KeyError", NoLayer)
    ELSE Activated(a, Layer(ts, "Conv1D",
                            [filters |-> int(kwargs[filters]),
                             kernel_size |-> int(kwargs[kernel_size]),
                             strides |-> IF strides \in DOMAIN kwargs
                                         THEN kwargs[strides] ELSE Whole(1)],
                            input_layers, ctx), ctx)

\* for _ in range(1, layers - 1): hidden = super()._build(hidden, **kwargs)
RECURSIVE Conv1D_loop(_, _, _, _, _)
Conv1D_loop(a, hidden, times, kwargs, ctx) ==
    IF times <= 0 THEN hidden
    ELSE Then(Conv1D_build(a, hidden.ts, hidden.val, kwargs, ctx), LAMBDA next :
            Conv1D_loop(a, next, times - 1, kwargs, ctx))

\* Conv1DResidualMetaLayer._build(input_layers, layers, strides, **kwargs)
Conv1DResidual_build(a, ts, input_layers, kwargs, ctx) ==
    IF ~Binds(kwargs, {layers_, strides}, {}, TRUE) THEN Step(ts, "TypeError", NoLayer)
    ELSE IF int(kwargs[layers_]) = 0 THEN Step(ts, "ok", input_layers)
    ELSE
      Bind(Without(kwargs, {layers_, strides}), LAMBDA inner :
      Then(Conv1D_build(a, ts, input_layers, inner, ctx), LAMBDA first :
      Then(Conv1D_loop(a, first, int(kwargs[layers_]) - 2, inner, ctx), LAMBDA hidden :
        IF int(kwargs[layers_]) <= 2 THEN hidden
        ELSE Then(Add(hidden.ts, first.val, hidden.val, ctx), LAMBDA sum :
                Conv1D_build(a, sum.ts, sum.val,
                             DictMerge(inner, [name \in {strides} |->
                                                 Whole(int(kwargs[strides]))]),
                             ctx)))))

\* MaxPool1DMetaLayer._build(pool_size, input_layers, **kwargs)
MaxPool1D_build(a, ts, input_layers, kwargs, ctx) ==
    IF ~Binds(kwargs, {pool_size}, {}, TRUE) THEN Step(ts, "TypeError", NoLayer)
    ELSE IF round(kwargs[pool_size]) = 0 THEN Step(ts, "ok", input_layers)
    ELSE Layer(ts, "MaxPool1D", [pool_size |-> round(kwargs[pool_size])],
               input_layers, ctx)

\* DropoutMetaLayer._build(dropout_rate, input_layers, **kwargs)
Dropout_build(a, ts, input_layers, kwargs, ctx) ==
    IF ~Binds(kwargs, {dropout_rate}, {}, TRUE) THEN Step(ts, "TypeError", NoLayer)
    ELSE IF isclose(kwargs[dropout_rate], 0) THEN Step(ts, "ok", input_layers)
    ELSE Layer(ts, "Dropout", [rate |-> kwargs[dropout_rate]], input_layers, ctx)

\* MaxPool2DMetaLayer._build(x_pool_size, y_pool_size, input_layers, **kwargs)
MaxPool2D_build(a, ts, input_layers, kwargs, ctx) ==
    IF ~Binds(kwargs, {x_pool_size, y_pool_size}, {}, TRUE)
    THEN Step(ts, "TypeError", NoLayer)
    ELSE IF round(kwargs[x_pool_size]) = 0 \/ round(kwargs[y_pool_size]) = 0
    THEN Step(ts, "ok", input_layers)
    ELSE Layer(ts, "MaxPool2D",
               [pool_size |-> <<round(kwargs[x_pool_size]), round(kwargs[y_pool_size])>>],
               input_layers, ctx)

\* FlattenMetaLayer._build(input_layers, **kwargs)
Flatten_build(a, ts, input_layers, kwargs, ctx) ==
    IF ~Binds(kwargs, {}, {}, TRUE) THEN Step(ts, "TypeError", NoLayer)
    ELSE Layer(ts, "Flatten", EmptyDict, input_layers, ctx)

\* self._dropout._build(dropout_rate=..., input_layers=...) of the rectangular
\* convolutional blocks: RegularizedMetaLayer.__init__ stores the bool
\* `dropout` in self._dropout, and a bool has no _build.
dropout_component_build(a, ts, input_layers, kwargs, ctx) ==
    Step(ts, "AttributeError", NoLayer)

\* Conv1DRectangularMetaLayer._build(input_layers, layers, strides, pool_size,
\* dropout_rate, **kwargs)
Conv1DRectangular_build(a, ts, input_layers, kwargs, ctx) ==
    IF ~Binds(kwargs, {layers_, strides, pool_size, dropout_rate}, {}, TRUE)
    THEN Step(ts, "TypeError", NoLayer)
    ELSE IF round(kwargs[layers_]) = 0 THEN Step(ts, "ok", input_layers)
    ELSE
      Bind(Without(kwargs, {layers_, strides, pool_size, dropout_rate}), LAMBDA inner :
      Bind(DictMerge(inner, [name \in {strides} |-> Whole(round(kwargs[strides]))]),
           LAMBDA strided :
      Then(Conv1D_build(a, ts, input_layers,
                        IF round(kwargs[layers_]) > 1 THEN inner ELSE strided, ctx),
           LAMBDA first :
      Then(Conv1D_loop(a, first, round(kwargs[layers_]) - 2, inner, ctx), LAMBDA hidden :
      Then(IF round(kwargs[layers_]) <= 2 THEN hidden
           ELSE Then(IF a.residual THEN Add(hidden.ts, first.val, hidden.val, ctx)
                     ELSE hidden,
                     LAMBDA sum : Conv1D_build(a, sum.ts, sum.val, strided, ctx)),
           LAMBDA last :
      Then(MaxPool1D_build(a, last.ts, last.val,
                           [name \in {pool_size} |-> Whole(round(kwargs[pool_size]))],
                           ctx),
           LAMBDA pooled :
        dropout_component_build(a, pooled.ts, pooled.val,
                                [name \in {dropout_rate} |-> kwargs[dropout_rate]],
                                ctx)))))))

\* Conv2DMetaLayer._build(input_layers, filters, x_kernel_size, y_kernel_size,
\* strides=(1, 1), **kwargs)
Conv2D_build(a, ts, input_layers, kwargs, ctx) ==
    IF ~Binds(kwargs, {filters, x_kernel_size, y_kernel_size}, {strides}, TRUE)
    THEN Step(ts, "TypeError", NoLayer)
    ELSE IF round(kwargs[filters]) = 0 THEN Step(ts, "ok", input_layers)
    ELSE IF ~regularizers_given(a, kwargs) THEN Step(ts, "KeyError", NoLayer)
    ELSE Activated(a, Layer(ts, "Conv2D",
                            [filters |-> round(kwargs[filters]),
                             kernel_size |-> <<round(kwargs[x_kernel_size]),
                                               round(kwargs[y_kernel_size])>>,
                             strides |-> IF strides \in DOMAIN kwargs
                                         THEN kwargs[strides] ELSE <<1, 1>>],
                            input_layers, ctx), ctx)

\* for _ in range(1, layers - 1): hidden = super()._build(hidden, **kwargs)
RECURSIVE Conv2D_loop(_, _, _, _, _)
Conv2D_loop(a, hidden, times, kwargs, ctx) ==
    IF times <= 0 THEN hidden
    ELSE Then(Conv2D_build(a, hidden.ts, hidden.val, kwargs, ctx), LAMBDA next :
            Conv2D_loop(a, next, times - 1, kwargs, ctx))

\* Conv2DRectangularMetaLayer._build(input_layers, layers, x_strides, y_strides,
\* x_pool_size, y_pool_size, dropout_rate, **kwargs)
Conv2DRectangular_build(a, ts, input_layers, kwargs, ctx) ==
    IF ~Binds(kwargs, {layers_, x_strides, y_strides, x_pool_size, y_pool_size,
                       dropout_rate}, {}, TRUE)
    THEN Step(ts, "TypeError", NoLayer)
    ELSE IF round(kwargs[layers_]) = 0 THEN Step(ts, "ok", input_layers)
    ELSE
      Bind(Without(kwargs, {layers_, x_strides, y_strides, x_pool_size, y_pool_size,
                            dropout_rate}),
           LAMBDA inner :
      Bind(DictMerge(inner, [name \in {strides} |->
                                <<round(kwargs[x_strides]), round(kwargs[y_strides])>>]),
           LAMBDA strided :
      Then(Conv2D_build(a, ts, input_layers,
                        IF round(kwargs[layers_]) > 1 THEN inner ELSE strided, ctx),
           LAMBDA first :
      Then(Conv2D_loop(a, first, round(kwargs[layers_]) - 2, inner, ctx), LAMBDA hidden :
      Then(IF round(kwargs[layers_]) <= 2 THEN hidden
           ELSE Then(IF a.residual THEN Add(hidden.ts, first.val, hidden.val, ctx)
                     ELSE hidden,
                     LAMBDA sum : Conv2D_build(a, sum.ts, sum.val, strided, ctx)),
           LAMBDA last :
      Then(MaxPool2D_build(a, last.ts, last.val,
                           [name \in {x_pool_size, y_pool_size} |-> kwargs[name]], ctx),
           LAMBDA pooled :
        dropout_component_build(a, pooled.ts, pooled.val,
                                DictMerge(inner, [name \in {dropout_rate} |->
                                                    kwargs[dropout_rate]]),
                                ctx)))))))

\* layer._build(input_layers=..., **kwargs), dispatched on the class.
local_build(layer, ts, input_layers, kwargs, ctx) ==
    LET a == layer.attrs
    IN  CASE layer.cls = InputMetaLayer -> Input_build(a, ts, input_layers, kwargs, ctx)
          [] layer.cls = ConcatenateMetaLayer ->
                Concatenate_build(a, ts, input_layers, kwargs, ctx)
          [] layer.cls \in {DenseMetaLayer, HeadMetaLayer} ->
                Dense_build(a, ts, input_layers, kwargs, ctx)
          [] layer.cls = DenseRectangularMetaLayer ->
                DenseRectangular_build(a, ts, input_layers, kwargs, ctx)
          [] layer.cls = Conv1DMetaLayer -> Conv1D_build(a, ts, input_layers, kwargs, ctx)
          [] layer.cls = Conv1DResidualMetaLayer ->
                Conv1DResidual_build(a, ts, input_layers, kwargs, ctx)
          [] layer.cls = Conv1DRectangularMetaLayer ->
                Conv1DRectangular_build(a, ts, input_layers, kwargs, ctx)
          [] layer.cls = Conv2DRectangularMetaLayer ->
                Conv2DRectangular_build(a, ts, input_layers, kwargs, ctx)
          [] layer.cls = FlattenMetaLayer ->
                Flatten_build(a, ts, input_layers, kwargs, ctx)
          [] layer.cls = MaxPool1DMetaLayer ->
                MaxPool1D_build(a, ts, input_layers, kwargs, ctx)
          [] layer.cls = DropoutMetaLayer ->
                Dropout_build(a, ts, input_layers, kwargs, ctx)

----------------------------------------------------------------------------
(* Lazy memoized build                                                     *)

\* What a build leaves: the layers, the tensors, the _build invocations made
\* so far (`calls`), an outcome and the returned artifact.
Built(ls, ts, calls, exc, val) ==
    [ls |-> ls, ts |-> ts, calls |-> calls, exc |-> exc, val |-> val]

\* A rule that hands over the list of artifacts whatever its length.
always_a_list(built) == List(built)

\* The three-way shape rule of MetaLayer._build_previous.
previous_shape(built) ==
    IF Len(built) = 1 THEN built[1]
    ELSE IF Len(built) = 0 THEN NoLayer
    ELSE List(built)

\* A build that never finds an artifact to reuse.
never_built(layer) == FALSE

\* "if self._layer is None" of MetaLayer.build, negated.
built(layer) == layer._layer # NoLayer

\* MetaLayer.build under the assignment kwargs.
RECURSIVE build(_, _, _, _, _)
RECURSIVE build_previous(_, _, _, _, _, _, _)
build(ls, ts, calls, n, kwargs) ==
    IF built(ls[n]) THEN Built(ls, ts, calls, "ok", ls[n]._layer)
    ELSE
      Then(build_previous(ls, ts, calls, ls[n]._input_layers, 1, <<>>, kwargs),
           LAMBDA previous :
        \* **None, or a keyword given by the assignment and by the defaults
        IF \/ ls[n]._rendered_defaults = None
           \/ DOMAIN kwargs \cap DOMAIN Get(ls[n]._rendered_defaults) # {}
        THEN Built(previous.ls, previous.ts, previous.calls, "TypeError", NoLayer)
        ELSE
          Bind(filter_relevant_kwargs(
                   ls[n], DictMerge(kwargs, Get(ls[n]._rendered_defaults))),
               LAMBDA relevant :
          Bind(local_build(ls[n], previous.ts, previous.val, relevant,
                           [by |-> n, kw |-> kwargs]),
               LAMBDA made :
            Built(IF made.exc = "ok"
                  THEN [previous.ls EXCEPT ![n]._layer = made.val]
                  ELSE previous.ls,
                  made.ts,
                  Append(previous.calls,
                         [node |-> n, input_layers |-> previous.val,
                          kwargs |-> relevant]),
                  made.exc, made.val))))

\* [layer.build(**kwargs) for layer in self._input_layers], then the shape rule.
build_previous(ls, ts, calls, ns, i, acc, kwargs) ==
    IF i > Len(ns) THEN Built(ls, ts, calls, "ok", previous_shape(acc))
    ELSE Then(build(ls, ts, calls, ns[i], kwargs), LAMBDA one :
            build_previous(one.ls, one.ts, one.calls, ns, i + 1,
                           Append(acc, one.val), kwargs))

----------------------------------------------------------------------------
(* MetaModel                                                               *)

FFNNMetaModel == "FFNNMetaModel"

\* One more DenseRectangularMetaLayer(**meta_layer_kwargs)(hidden), `blocks` times.
\* g carries the counters, the layers and the index of the hidden layer.
RECURSIVE FFNN_blocks(_, _, _, _)
FFNN_blocks(g, blocks, meta_layer_kwargs, ep) ==
    IF blocks = 0 THEN g
    ELSE
      LET block == call(NewMetaLayer(g.ids, DenseRectangularMetaLayer,
                                     meta_layer_kwargs, <<"_">>, ep),
                        <<g.hidden>>)
      IN  FFNN_blocks([ids |-> ids_after(g.ids, DenseRectangularMetaLayer),
                       ls |-> Append(g.ls, block),
                       hidden |-> Len(g.ls) + 1],
                      blocks - 1, meta_layer_kwargs, ep)

\* FFNNMetaModel.structure(input_layer): [ids, ls, inputs, outputs].
FFNN_structure(ids, ls, args, input_layer, ep) ==
    Bind(IF input_layer = None
         THEN [ids |-> ids_after(ids, InputMetaLayer),
               ls |-> Append(ls, NewMetaLayer(ids, InputMetaLayer, EmptyDict,
                                              <<"_">>, ep)),
               hidden |-> Len(ls) + 1]
         ELSE [ids |-> ids, ls |-> ls, hidden |-> Get(input_layer)],
         LAMBDA start :
    Bind(FFNN_blocks(start, args.blocks, args.meta_layer_kwargs, ep), LAMBDA body :
        IF args.headless
        THEN [ids |-> body.ids, ls |-> body.ls,
              inputs |-> <<start.hidden>>, outputs |-> <<body.hidden>>]
        ELSE [ids |-> ids_after(body.ids, HeadMetaLayer),
              ls |-> Append(body.ls,
                            call(NewMetaLayer(body.ids, HeadMetaLayer,
                                              [units |-> args.output_units],
                                              <<"_">>, ep),
                                 <<body.hidden>>)),
              inputs |-> <<start.hidden>>, outputs |-> <<Len(body.ls) + 1>>]))

\* A meta-model constructed without the counter reset.
no_reset_layer_count == FALSE

\* Whether MetaModel.__init__ resets the layer counter before structure().
reset_layer_count == TRUE

\* MetaModel.__init__ as reached from FFNNMetaModel.__init__:
\* [ids, ls, model].
FFNN_init(ids, ls, args, ep) ==
    Bind(FFNN_structure(IF reset_layer_count THEN reset_counter ELSE ids,
                        ls, args, None, ep),
         LAMBDA made :
        [ids |-> made.ids, ls |-> made.ls,
         model |-> [cls |-> FFNNMetaModel, args |-> args, _rendered |-> FALSE,
                    _inputs |-> made.inputs, _outputs |-> made.outputs]])

\* MetaModel._space of the concrete class: FFNNMetaModel declares nothing.
model_space(model) == EmptyDict

\* MetaModel.space: the spaces of the output layers, then the model's own.
MetaModel_space(ls, model) ==
    Then(space_all(ls, <<>>, model._outputs, 1, <<>>), LAMBDA outputs :
        Spaced(outputs.ls, outputs.calls, "ok",
               ChainMap(outputs.val \o <<model_space(model)>>)))

\* The model-assembly primitive Model(inputs=..., outputs=...): every handle
\* must be a tensor.
Model(inputs, outputs) ==
    IF \E i \in DOMAIN inputs : inputs[i].kind # "one" THEN Raise("KerasError")
    ELSE IF \E i \in DOMAIN outputs : outputs[i].kind # "one" THEN Raise("KerasError")
    ELSE Ok([inputs |-> inputs, outputs |-> outputs])

\* [layer.build(**kwargs) for layer in ns]: the list itself, no shape rule.
RECURSIVE build_each(_, _, _, _, _, _, _)
build_each(ls, ts, calls, ns, i, acc, kwargs) ==
    IF i > Len(ns) THEN Built(ls, ts, calls, "ok", acc)
    ELSE Then(build(ls, ts, calls, ns[i], kwargs), LAMBDA one :
            build_each(one.ls, one.ts, one.calls, ns, i + 1,
                       Append(acc, one.val), kwargs))

\* A build that takes the space for rendered.
assumed_rendered(ls, model) == Spaced(ls, <<>>, "ok", None)

\* "if not self._rendered: self.space()": the layers as this leaves them.
MetaModel_rendered(ls, model) ==
    IF model._rendered THEN Spaced(ls, <<>>, "ok", None) ELSE MetaModel_space(ls, model)

\* The layers of the output subgraphs that hold an artifact.
cached(ls, model) ==
    {n \in UNION {Subgraph(ls, model._outputs[i]) : i \in DOMAIN model._outputs} :
        ls[n]._layer # NoLayer}

\* A build that returns the model and resets nothing.
no_reset(ls, model) == ls

\* "for layer in self._outputs: layer.reset()", after the model is assembled.
reset_outputs(ls, model) == reset_all(ls, model._outputs, 1)

\* MetaModel.build: space() when not rendered yet, the inputs, the outputs,
\* the model, the reset.  `stale` records cached() as the construction of the
\* layers starts.
MetaModel_build(ls, ts, model, kwargs) ==
    Bind(MetaModel_rendered(ls, model), LAMBDA rendered :
      IF rendered.exc # "ok"
      THEN [ls |-> rendered.ls, ts |-> ts, calls |-> <<>>, exc |-> rendered.exc,
            val |-> None, stale |-> {}]
      ELSE
        Bind(rendered.ls, LAMBDA start :
        Bind(build_each(start, ts, <<>>, model._inputs, 1, <<>>, kwargs),
             LAMBDA inputs :
        Bind(IF inputs.exc # "ok" THEN inputs
             ELSE build_each(inputs.ls, inputs.ts, inputs.calls, model._outputs, 1,
                             <<>>, kwargs),
             LAMBDA outputs :
        Bind(IF outputs.exc # "ok" THEN Raise(outputs.exc)
             ELSE Model(inputs.val, outputs.val),
             LAMBDA assembled :
          [ls |-> IF assembled.exc = "ok" THEN reset_outputs(outputs.ls, model)
                  ELSE outputs.ls,
           ts |-> outputs.ts, calls |-> outputs.calls, exc |-> assembled.exc,
           val |-> assembled.val, stale |-> cached(start, model)])))))

----------------------------------------------------------------------------
(* Operations                                                              *)

\* What the caller keeps of the call before the last one, when that was a
\* MetaModel.build: the model it returned is still referred to.
Brief(r) ==
    IF r.op = "MetaModel.build"
    THEN [op |-> r.op, target |-> r.target, kwargs |-> r.kwargs, exc |-> r.exc,
          val |-> r.val]
    ELSE [op |-> "none", target |-> 0, kwargs |-> EmptyDict, exc |-> "ok",
          val |-> None]

\* The record of a call.  `stale` is filled by the builds: the layers of the
\* walked subgraphs that held an artifact when the call started to construct
\* layers.  `before` is the Brief of the record this one replaces.
\* `unrendered` is filled by MetaModel.build: "not self._rendered" as the
\* call started.
Ret(op, target, kwargs, exc, val, calls, stale) ==
    [op |-> op, target |-> target, kwargs |-> kwargs, exc |-> exc, val |-> val,
     calls |-> calls, stale |-> stale, before |-> Brief(ret),
     unrendered |-> FALSE]

NoRet ==
    [op |-> "none", target |-> 0, kwargs |-> EmptyDict, exc |-> "ok", val |-> None,
     calls |-> <<>>, stale |-> {}, before |-> Brief([op |-> "none"]),
     unrendered |-> FALSE]

\* The handles of the tensors of the artifacts in a sequence.
AllHandles(artifacts) ==
    UNION {Range(Handles(artifacts[i])) : i \in DOMAIN artifacts}

\* The handles of the model a MetaModel.build record returned.
ModelHandles(r) ==
    IF r.op = "MetaModel.build" /\ r.exc = "ok"
    THEN AllHandles(r.val.inputs) \cup AllHandles(r.val.outputs)
    ELSE {}

\* The handles a call record refers to.
RetHandles(r) ==
    UNION {Range(Handles(r.calls[i].input_layers)) : i \in DOMAIN r.calls}
        \cup (IF r.op \in {"build", "_build"} THEN Range(Handles(r.val)) ELSE {})
        \cup ModelHandles(r) \cup ModelHandles(r.before)

\* The tensors something still refers to; the others are collected.
RECURSIVE Reach(_, _)
Reach(ts, hs) ==
    Bind(hs \cup UNION {Range(ts[h].inputs) : h \in hs}, LAMBDA more :
        IF more = hs THEN hs ELSE Reach(ts, more))

Alive(ts, ls, r) ==
    Bind(Reach(ts, RetHandles(r) \cup
                   UNION {Range(Handles(ls[n]._layer)) : n \in DOMAIN ls}),
         LAMBDA alive : [h \in alive |-> ts[h]])

\* cls(separator=separator, **kwargs)
NewLayer(cls, kwargs, separator) ==
    /\ layers' = Append(layers, NewMetaLayer(layer_ids, cls, kwargs, separator, epoch))
    /\ layer_ids' = ids_after(layer_ids, cls)
    /\ ret' = Ret("MetaLayer", Len(layers) + 1, EmptyDict, "ok", None, <<>>, {})
    /\ UNCHANGED <<models, tensors, epoch>>

\* cls(separator=separator, **kwargs)(input_layers)
NewWired(cls, kwargs, separator, input_layers) ==
    /\ layers' = Append(layers,
                        call(NewMetaLayer(layer_ids, cls, kwargs, separator, epoch),
                             input_layers))
    /\ layer_ids' = ids_after(layer_ids, cls)
    /\ ret' = Ret("MetaLayer", Len(layers) + 1, EmptyDict, "ok", None, <<>>, {})
    /\ UNCHANGED <<models, tensors, epoch>>

\* layers[n](input_layers)
Call(n, input_layers) ==
    /\ layers' = [layers EXCEPT ![n] = call(layers[n], input_layers)]
    /\ ret' = Ret("call", n, EmptyDict, "ok", None, <<>>, {})
    /\ UNCHANGED <<layer_ids, models, tensors, epoch>>

\* MetaLayer.reset_counter()
ResetCounter ==
    /\ layer_ids' = reset_counter
    /\ epoch' = epoch + 1
    /\ ret' = Ret("reset_counter", 0, EmptyDict, "ok", None, <<>>, {})
    /\ UNCHANGED <<layers, models, tensors>>

\* layers[n].space()
SpaceOf(n) ==
    Bind(space(layers, <<>>, n), LAMBDA s :
        /\ layers' = s.ls
        /\ ret' = Ret("space", n, EmptyDict, s.exc, s.val, s.calls, {})
        /\ UNCHANGED <<layer_ids, models, tensors, epoch>>)

\* layers[n].build(**kwargs)
BuildOf(n, kwargs) ==
    Bind(build(layers, tensors, <<>>, n, kwargs), LAMBDA b :
        /\ layers' = b.ls
        /\ ret' = Ret("build", n, kwargs, b.exc, b.val, b.calls,
                      {m \in Subgraph(layers, n) : layers[m]._layer # NoLayer})
        /\ tensors' = Alive(b.ts, layers', ret')
        /\ UNCHANGED <<layer_ids, models, epoch>>)

\* layers[n]._build(input_layers=..., **kwargs), called as the blocks call the
\* _build of their components: on the artifacts the input layers hold, with
\* local parameter names; the artifact is returned, not stored.
DirectBuildOf(n, kwargs) ==
    Bind(previous_shape([i \in DOMAIN layers[n]._input_layers |->
                            layers[layers[n]._input_layers[i]]._layer]),
         LAMBDA input_layers :
    Bind(local_build(layers[n], tensors, input_layers, kwargs, [by |-> n, kw |-> kwargs]),
         LAMBDA made :
        /\ ret' = Ret("_build", n, kwargs, made.exc, made.val,
                      <<[node |-> n, input_layers |-> input_layers, kwargs |-> kwargs]>>,
                      {})
        /\ tensors' = Alive(made.ts, layers, ret')
        /\ UNCHANGED <<layer_ids, layers, models, epoch>>))

\* layers[n].reset()
ResetOf(n) ==
    /\ layers' = reset(layers, n)
    /\ ret' = Ret("reset", n, EmptyDict, "ok", None, <<>>, {})
    /\ tensors' = Alive(tensors, layers', ret')
    /\ UNCHANGED <<layer_ids, models, epoch>>

\* FFNNMetaModel(blocks=..., headless=..., meta_layer_kwargs=..., output_units=...)
NewFFNNMetaModel(args) ==
    Bind(FFNN_init(layer_ids, layers, args,
                   IF reset_layer_count THEN epoch + 1 ELSE epoch),
         LAMBDA made :
        /\ layers' = made.ls
        /\ layer_ids' = made.ids
        /\ models' = Append(models, made.model)
        /\ epoch' = IF reset_layer_count THEN epoch + 1 ELSE epoch
        /\ ret' = Ret("MetaModel", Len(models) + 1, EmptyDict, "ok", None, <<>>, {})
        /\ UNCHANGED tensors)

\* models[m].space(): _rendered is set before the layers are asked.
ModelSpace(m) ==
    Bind(MetaModel_space(layers, models[m]), LAMBDA s :
        /\ layers' = s.ls
        /\ models' = [models EXCEPT ![m]._rendered = TRUE]
        /\ ret' = Ret("MetaModel.space", m, EmptyDict, s.exc, s.val, s.calls, {})
        /\ UNCHANGED <<layer_ids, tensors, epoch>>)

\* models[m].build(**kwargs)
ModelBuild(m, kwargs) ==
    Bind(MetaModel_build(layers, tensors, models[m], kwargs), LAMBDA b :
        /\ layers' = b.ls
        /\ models' = [models EXCEPT ![m]._rendered = TRUE]
        /\ ret' = [Ret("MetaModel.build", m, kwargs, b.exc, b.val, b.calls, b.stale)
                      EXCEPT !.unrendered = ~models[m]._rendered]
        /\ tensors' = Alive(b.ts, layers', ret')
        /\ UNCHANGED <<layer_ids, epoch>>)

Empty ==
    /\ layer_ids = EmptyDict
    /\ layers = <<>>
    /\ models = <<>>
    /\ tensors = EmptyDict
    /\ epoch = 0
    /\ ret = NoRet
    /\ builds = 0
    /\ tuners = <<>>

----------------------------------------------------------------------------
(* Spec: the namespace.  Layers of several classes and whole meta-models   *)
(* are constructed in any order, with counter resets in between.           *)

MaxLayers == 2
MaxBlocks == 2

FFNNArgs(blocks, headless) ==
    [blocks |-> blocks, headless |-> headless, meta_layer_kwargs |-> EmptyDict,
     output_units |-> Whole(1)]

\* The layers constructed outside every meta-model.
Standalone ==
    {n \in DOMAIN layers :
        \A m \in DOMAIN models :
            n \notin Subgraph(layers, models[m]._outputs[1])}

Init == Empty

NsNewLayer ==
    /\ Cardinality(Standalone) < MaxLayers
    /\ \E cls \in {DenseMetaLayer, DenseRectangularMetaLayer} :
          NewLayer(cls, EmptyDict, <<"_">>)
    /\ UNCHANGED <<builds, tuners>>

\* At most one reset_counter call besides those of the meta-models.
NsResetCounter == epoch <= Len(models) /\ ResetCounter /\ UNCHANGED <<builds, tuners>>

\* The same class of meta-model is constructed up to twice.
NsNewModel ==
    /\ Len(models) < 2
    /\ \E blocks \in 1..MaxBlocks : NewFFNNMetaModel(FFNNArgs(blocks, FALSE))
    /\ UNCHANGED <<builds, tuners>>

NsModelSpace == (\E m \in DOMAIN models : ModelSpace(m)) /\ UNCHANGED <<builds, tuners>>

Next == NsNewLayer \/ NsResetCounter \/ NsNewModel \/ NsModelSpace

Spec == Init /\ [][Next]_vars

FFNNKeys(blocks) ==
    {join(<<"_">>, join(<<"_">>, <<DenseRectangularMetaLayer>>, str(b)), name) :
        b \in 0..(blocks - 1), name \in {units, layers_}}

\* C6: the same topology constructed twice has the same namespace keys,
\* numbered from 0 for each class, whatever was constructed before or between.
DeterministicKeys ==
    /\ \A m \in DOMAIN models :
          layers[models[m]._outputs[1]]._rendered_space # None
              => DOMAIN Get(layers[models[m]._outputs[1]]._rendered_space)
                    = FFNNKeys(models[m].args.blocks)
    /\ (ret.op = "MetaModel.space" /\ ret.exc = "ok")
          => DOMAIN ret.val = FFNNKeys(models[ret.target].args.blocks)

\* Two 2-block models have both declared their space, a standalone block
\* layer was constructed before the first and another between the two.
DeterministicKeysWitness ==
    /\ Len(models) = 2
    /\ models[1].args.blocks = 2 /\ models[2].args.blocks = 2
    /\ models[1]._rendered /\ models[2]._rendered
    /\ ret.op = "MetaModel.space" /\ ret.exc = "ok"
    /\ join(<<"_">>, join(<<"_">>, <<DenseRectangularMetaLayer>>, <<"1">>), units)
          \in DOMAIN ret.val
    /\ \E a, b \in Standalone :
          /\ layers[a].cls = DenseRectangularMetaLayer
          /\ layers[b].cls = DenseRectangularMetaLayer
          /\ a < models[1]._inputs[1]
          /\ models[1]._outputs[1] < b /\ b < models[2]._inputs[1]

----------------------------------------------------------------------------
(* SpecPrefix: one input layer and many layers of one class, so that      *)
(* instance ids of one and of two digits coexist; some of them are wired   *)
(* into a graph, which is built from assignments sampled over its declared *)
(* space.                                                                  *)

ManyLayers == 11
MaxWired == 2

endswith(key, name) ==
    /\ Len(key) >= Len(name)
    /\ SubSeq(key, Len(key) - Len(name) + 1, Len(key)) = name

\* An assignment over `keys`: every units key takes u, every other key l.
Sample(keys, u, l) == [key \in keys |-> IF endswith(key, units) THEN u ELSE l]

\* A key no layer of the graph owns.
learning_rate == <<"learning", "_", "rate">>

Unrelated == [key \in {learning_rate} |-> Real(0, 2)]

\* The keys layer n declares, without changing the state.
Declared(n) ==
    Bind(space(layers, <<>>, n), LAMBDA s : IF s.exc = "ok" THEN DOMAIN s.val ELSE {})

\* The layers that were given input layers.
Wired == {n \in DOMAIN layers : layers[n]._input_layers # <<>>}

PxNewLayer ==
    /\ Len(layers) <= ManyLayers
    /\ NewLayer(IF layers = <<>> THEN InputMetaLayer ELSE DenseRectangularMetaLayer,
                EmptyDict, <<"_">>)
    /\ UNCHANGED <<builds, tuners>>

\* The graph is wired once its layers are constructed, in their order.
PxCall ==
    /\ Len(layers) > ManyLayers
    /\ Cardinality(Wired) < MaxWired
    /\ \E n \in DOMAIN layers \ Wired, p \in DOMAIN layers :
          /\ layers[n].cls # InputMetaLayer
          /\ p < n
          /\ p \in Wired \/ layers[p].cls = InputMetaLayer
          /\ Call(n, <<p>>)
    /\ UNCHANGED <<builds, tuners>>

PxSpaceOf == (\E n \in Wired : SpaceOf(n)) /\ UNCHANGED <<builds, tuners>>

PxBuildOf ==
    /\ \E n \in Wired :
          \E more \in {EmptyDict, Unrelated} :
              BuildOf(n, DictMerge(Sample(Declared(n), Whole(3), Whole(1)), more))
    /\ UNCHANGED <<builds, tuners>>

NextPrefix == PxNewLayer \/ PxCall \/ PxSpaceOf \/ PxBuildOf

SpecPrefix == Init /\ [][NextPrefix]_vars

\* The entries of `kwargs` and of the defaults of `layer` whose key is the
\* namespace key of `layer` (prefix, separator, local name), prefix stripped.
OwnParameters(layer, kwargs) ==
    Bind(join(layer._separator, layer_prefix(layer), <<>>), LAMBDA own :
    Bind(DictMerge(kwargs, Get(layer._rendered_defaults)), LAMBDA all :
    Bind({key \in DOMAIN all : startswith(key, own)}, LAMBDA mine :
        [local \in {slice_from(key, Len(own)) : key \in mine} |->
            all[CHOOSE key \in mine : slice_from(key, Len(own)) = local]])))

\* C1: the local parameters build hands to the construction procedure of a
\* layer are exactly the entries of the assignment and of its defaults that
\* carry its own namespace key, with the prefix stripped; no entry of another
\* instance reaches it.
OnlyOwnParameters ==
    ret.op \in {"build", "MetaModel.build"}
        => \A i \in DOMAIN ret.calls :
              ret.calls[i].kwargs = OwnParameters(layers[ret.calls[i].node], ret.kwargs)

----------------------------------------------------------------------------
(* SpecModel: one FFNNMetaModel, its space, builds of the whole model from *)
(* complete and incomplete assignments, and builds of single layers of it *)
(* in between.                                                             *)

ModelBlocks == 2
MaxBuilds == 3

\* meta_layer_kwargs that fix the units of every block.
FixedUnits == [min_units |-> Whole(3), max_units |-> Whole(3)]

\* The layers of a meta-model.
ModelNodes(m) ==
    UNION {Subgraph(layers, models[m]._outputs[i]) : i \in DOMAIN models[m]._outputs}

\* The keys the model declares, without changing the state.
ModelKeys(m) ==
    Bind(MetaModel_space(layers, models[m]), LAMBDA s :
        IF s.exc = "ok" THEN DOMAIN s.val ELSE {})

\* Assignments over `keys`, and the empty one.
Assignments(keys) ==
    {Sample(keys, Whole(0), Whole(1)), Sample(keys, Whole(3), Whole(1)),
     Sample(keys, Whole(3), Whole(3)), EmptyDict}

MdNewModel ==
    /\ models = <<>>
    /\ \E blocks \in 1..ModelBlocks, meta_layer_kwargs \in {EmptyDict, FixedUnits} :
          NewFFNNMetaModel([blocks |-> blocks, headless |-> FALSE,
                            meta_layer_kwargs |-> meta_layer_kwargs,
                            output_units |-> Whole(1)])
    /\ UNCHANGED <<builds, tuners>>

MdModelSpace == (\E m \in DOMAIN models : ModelSpace(m)) /\ UNCHANGED <<builds, tuners>>

\* `builds` counts the build calls made, of models and of single layers.
MdModelBuild ==
    /\ builds < MaxBuilds
    /\ builds' = builds + 1
    /\ UNCHANGED tuners
    /\ \E m \in DOMAIN models :
          \E kwargs \in Assignments(ModelKeys(m)) : ModelBuild(m, kwargs)

MdBuildOf ==
    /\ builds < MaxBuilds
    /\ builds' = builds + 1
    /\ UNCHANGED tuners
    /\ \E m \in DOMAIN models :
          \E n \in ModelNodes(m) :
              BuildOf(n, Sample(ModelKeys(m), Whole(3), Whole(1)))

\* The keys of the rendered defaults of the layers of the model, once it is
\* rendered.
DefaultKeys(m) ==
    Bind(MetaModel_space(layers, models[m]), LAMBDA s :
        IF s.exc # "ok" THEN {}
        ELSE UNION {DOMAIN Get(s.ls[n]._rendered_defaults) : n \in ModelNodes(m)})

\* A build under a complete assignment that also carries the key of one
\* default, with the value u.
MdModelBuildOver ==
    /\ builds < MaxBuilds
    /\ builds' = builds + 1
    /\ UNCHANGED tuners
    /\ \E m \in DOMAIN models :
          \E key \in DefaultKeys(m), u \in {Whole(1), Whole(3)} :
              ModelBuild(m, DictMerge(Sample(ModelKeys(m), Whole(3), Whole(1)),
                                      [k \in {key} |-> u]))

NextModel ==
    MdNewModel \/ MdModelSpace \/ MdModelBuild \/ MdBuildOf \/ MdModelBuildOver

SpecModel == Init /\ [][NextModel]_vars

\* The last two calls built the same model, from two different assignments,
\* and both returned a model.
TwiceInARow ==
    /\ ret.op = "MetaModel.build" /\ ret.exc = "ok"
    /\ ret.before.op = "MetaModel.build" /\ ret.before.exc = "ok"
    /\ ret.before.target = ret.target
    /\ ret.before.kwargs # ret.kwargs

\* C2: when a meta-model is built twice in a row from two different
\* assignments, the construction procedure of every layer of the model ran
\* during the second build, every tensor of the second model was made under
\* the second assignment, and the second model shares no tensor with the
\* first.
SecondBuildIsFresh ==
    TwiceInARow =>
        /\ \A n \in ModelNodes(ret.target) :
              Cardinality({i \in DOMAIN ret.calls : ret.calls[i].node = n}) = 1
        /\ \A h \in Reach(tensors, ModelHandles(ret)) : tensors[h].kw = ret.kwargs
        /\ Reach(tensors, ModelHandles(ret))
              \cap Reach(tensors, ModelHandles(ret.before)) = {}

\* A model was built with 3 units, then with 0 units, and both models hold
\* tensors.
SecondBuildIsFreshWitness ==
    /\ TwiceInARow
    /\ \E key \in DOMAIN ret.kwargs :
          /\ endswith(key, units)
          /\ ret.kwargs[key] = Whole(0)
          /\ ret.before.kwargs[key] = Whole(3)
    /\ Cardinality(Reach(tensors, ModelHandles(ret.before))) > 2
    /\ ModelHandles(ret) # {}

\* C3: when MetaModel.build starts to construct layers, no layer of the
\* output subgraphs holds an artifact.
ResetBeforeBuild == ret.op = "MetaModel.build" => ret.stale = {}

\* The local names a layer declares with low equal to high, with that value.
Fixed(layer) ==
    Bind(local_space(layer), LAMBDA local :
        IF local.exc # "ok" THEN EmptyDict
        ELSE [name \in {x \in DOMAIN local.val :
                          /\ Len(local.val[x]) = 2
                          /\ local.val[x][1] = local.val[x][2]} |->
                 local.val[name][1]])

\* The namespace key of a local name.
Key(layer, name) == join(layer._separator, layer_prefix(layer), name)

\* The namespace keys of the fixed parameters of the layers in `nodes`.
FixedKeys(nodes) ==
    UNION {{Key(layers[n], name) : name \in DOMAIN Fixed(layers[n])} : n \in nodes}

\* C7: the key of a parameter declared with min equal to max is in no space:
\* not in the rendered space of its layer, nor in that of a descendant, nor in
\* what MetaModel.space returns; and a build under an assignment without that
\* key hands the fixed value to the construction procedure of the layer.
DefaultElision ==
    /\ \A m \in DOMAIN layers :
          layers[m]._rendered_space # None
              => FixedKeys(Subgraph(layers, m))
                    \cap DOMAIN Get(layers[m]._rendered_space) = {}
    /\ (ret.op = "MetaModel.space" /\ ret.exc = "ok")
          => FixedKeys(ModelNodes(ret.target)) \cap DOMAIN ret.val = {}
    /\ ret.op \in {"build", "MetaModel.build"}
          => \A i \in DOMAIN ret.calls :
                \A name \in DOMAIN Fixed(layers[ret.calls[i].node]) :
                    Key(layers[ret.calls[i].node], name) \notin DOMAIN ret.kwargs
                        => /\ name \in DOMAIN ret.calls[i].kwargs
                           /\ ret.calls[i].kwargs[name]
                                 = Fixed(layers[ret.calls[i].node])[name]

\* A model whose blocks have fixed units was built from its declared space:
\* the block and the head were handed their fixed units.
DefaultElisionWitness ==
    /\ ret.op = "MetaModel.build" /\ ret.exc = "ok"
    /\ \E i, j \in DOMAIN ret.calls :
          /\ layers[ret.calls[i].node].cls = DenseRectangularMetaLayer
          /\ units \in DOMAIN Fixed(layers[ret.calls[i].node])
          /\ Key(layers[ret.calls[i].node], units) \notin DOMAIN ret.kwargs
          /\ ret.calls[i].kwargs[units] = Whole(3)
          /\ layers[ret.calls[j].node].cls = HeadMetaLayer
          /\ ret.calls[j].kwargs[units] = Whole(1)
          /\ layers[ret.calls[j].node]._rendered_space # None
          /\ DOMAIN Get(layers[ret.calls[j].node]._rendered_space) # {}

----------------------------------------------------------------------------
(* SpecGraph: a graph of one input layer, dense layers and concatenations  *)
(* grown layer by layer, each new layer wired to earlier ones; once a      *)
(* space was declared or a layer built, the graph no longer grows.  The    *)
(* outputs of the graph are asked for their space and built.               *)

GraphLayers == 4
MaxFanIn == 2

\* The strictly increasing sequences of 2..MaxFanIn layers.
RECURSIVE Increasing(_, _)
Increasing(n, k) ==
    IF k = 0 THEN {<<>>}
    ELSE {Append(s, p) : s \in Increasing(n, k - 1), p \in 1..n}
            \cap {s \in Seq(1..n) : \A i \in 1..(Len(s) - 1) : s[i] < s[i + 1]}

\* Nothing was declared or built yet.
Untouched ==
    \A n \in DOMAIN layers : layers[n]._rendered_space = None /\ ~built(layers[n])

GrNewLayer ==
    /\ Len(layers) < GraphLayers
    /\ Untouched
    /\ \/ /\ layers = <<>>
          /\ NewWired(InputMetaLayer, EmptyDict, <<"_">>, <<>>)
       \/ \E p \in DOMAIN layers :
              \E argument \in {One(p), List(<<p>>)} :
                  NewWired(DenseMetaLayer, EmptyDict, <<"_">>, wrapped(argument))
       \/ \E k \in 2..MaxFanIn :
              \E ps \in Increasing(Len(layers), k) :
                  NewWired(ConcatenateMetaLayer, EmptyDict, <<"_">>, wrapped(List(ps)))
    /\ UNCHANGED <<builds, tuners>>

\* The layers no layer takes as input: the outputs of the graph.
Sinks ==
    {n \in DOMAIN layers :
        \A m \in DOMAIN layers : n \notin Range(layers[m]._input_layers)}

GrSpaceOf == (\E n \in Sinks : SpaceOf(n)) /\ UNCHANGED <<builds, tuners>>

GrBuildOf ==
    /\ \E n \in Sinks : BuildOf(n, Sample(Declared(n), Whole(2), Whole(1)))
    /\ UNCHANGED <<builds, tuners>>

NextGraph == GrNewLayer \/ GrSpaceOf \/ GrBuildOf

SpecGraph == Init /\ [][NextGraph]_vars

\* The number of times the construction procedure of n ran in the last call.
Invocations(n) == Cardinality({i \in DOMAIN ret.calls : ret.calls[i].node = n})

\* C4: in one build call the construction procedure of a layer runs at most
\* once; when the call starts with no artifact in the subgraph and returns,
\* it ran exactly once for every layer reachable from the built one; and
\* every construction procedure was handed, for each of its input layers, the
\* one artifact that layer holds.
BuildOnce ==
    ret.op = "build" =>
        /\ \A n \in DOMAIN layers : Invocations(n) <= 1
        /\ (ret.stale = {} /\ ret.exc = "ok")
              => \A n \in Subgraph(layers, ret.target) : Invocations(n) = 1
        /\ \A i \in DOMAIN ret.calls :
              ret.calls[i].input_layers
                  = previous_shape([j \in DOMAIN layers[ret.calls[i].node]._input_layers |->
                        layers[layers[ret.calls[i].node]._input_layers[j]]._layer])

\* A diamond was built: a concatenation of two dense layers that share their
\* input layer, each of them holding a tensor of its own made from the one
\* tensor of the shared layer.
BuildOnceWitness ==
    /\ ret.op = "build" /\ ret.exc = "ok" /\ ret.stale = {}
    /\ layers[ret.target].cls = ConcatenateMetaLayer
    /\ \E b, c \in DOMAIN layers :
          /\ b # c
          /\ layers[ret.target]._input_layers = <<b, c>>
          /\ layers[b].cls = DenseMetaLayer /\ layers[c].cls = DenseMetaLayer
          /\ layers[b]._input_layers = layers[c]._input_layers
          /\ layers[b]._layer # layers[c]._layer
          /\ \E i, j \in DOMAIN ret.calls :
                /\ ret.calls[i].node = b /\ ret.calls[j].node = c
                /\ ret.calls[i].input_layers = ret.calls[j].input_layers
                /\ ret.calls[i].input_layers.kind = "one"

----------------------------------------------------------------------------
(* SpecBlock: one input layer and one block on top of it, of any class and *)
(* configuration, asked for its space and built from assignments drawn     *)
(* over what it declares.                                                  *)

MaxSampled == 3

\* The constructor arguments a block of class cls is given.
BlockKwargs(cls) ==
    CASE cls = DenseMetaLayer ->
            {EmptyDict, [min_units |-> Whole(0), max_units |-> Whole(0)],
             [kernel_regularizer |-> TRUE]}
      [] cls = DenseRectangularMetaLayer ->
            {EmptyDict,
             [residual |-> TRUE],
             [batch_normalization |-> TRUE, residual |-> TRUE],
             [batch_normalization |-> TRUE, activity_regularizer |-> TRUE,
              kernel_regularizer |-> TRUE, bias_regularizer |-> TRUE],
             [min_units |-> Whole(0), max_units |-> Whole(0)],
             [min_units |-> Whole(0), max_units |-> Whole(0), residual |-> TRUE],
             [min_layers |-> Whole(0), max_layers |-> Whole(0)]}
      [] cls = HeadMetaLayer ->
            {EmptyDict, [activity_regularizer |-> TRUE]}
      [] cls \in {Conv1DRectangularMetaLayer, Conv2DRectangularMetaLayer} ->
            {EmptyDict, [residual |-> TRUE], [dropout |-> TRUE]}
      [] cls = Conv1DMetaLayer ->
            {EmptyDict, [min_filters |-> Whole(0), max_filters |-> Whole(0)]}
      [] cls = Conv1DResidualMetaLayer ->
            {EmptyDict,
             [min_filters |-> Whole(0), max_filters |-> Whole(0)],
             [min_layers |-> Whole(0), max_layers |-> Whole(0)]}
      [] cls \in {MaxPool1DMetaLayer, DropoutMetaLayer} ->
            {EmptyDict, [enabled |-> FALSE]}

BlockClasses ==
    {DenseMetaLayer, DenseRectangularMetaLayer, HeadMetaLayer, Conv1DMetaLayer,
     Conv1DResidualMetaLayer, Conv1DRectangularMetaLayer, Conv2DRectangularMetaLayer,
     MaxPool1DMetaLayer, DropoutMetaLayer}

\* The rectangular convolutional blocks.
ConvRectangular == {Conv1DRectangularMetaLayer, Conv2DRectangularMetaLayer}

\* The blocks that chain several layers.
Rectangular ==
    {DenseRectangularMetaLayer, Conv1DResidualMetaLayer} \cup ConvRectangular

\* The local names a layer declares, whatever MetaLayer.space makes of them.
LocalNames(n) ==
    Bind(local_space(layers[n]), LAMBDA local :
        IF local.exc = "ok" THEN DOMAIN local.val ELSE {})

\* An assignment over `keys`: u for the units and the filters, l for the
\* layers, 1 for every other key.
BlockSample(keys, u, l) ==
    [key \in keys |->
        IF endswith(key, units) \/ endswith(key, filters) THEN u
        ELSE IF endswith(key, layers_) THEN l
        ELSE Whole(1)]

\* The assignment with s for every strides key.
Strided(kwargs, s) ==
    [key \in DOMAIN kwargs |-> IF endswith(key, strides) THEN s ELSE kwargs[key]]

BkNewLayer ==
    /\ \/ /\ layers = <<>>
          /\ NewWired(InputMetaLayer, EmptyDict, <<"_">>, <<>>)
       \/ /\ Len(layers) = 1
          /\ \E cls \in BlockClasses :
                \E kwargs \in BlockKwargs(cls) : NewWired(cls, kwargs, <<"_">>, <<1>>)
    /\ UNCHANGED <<builds, tuners>>

BkSpaceOf == (\E n \in DOMAIN layers : SpaceOf(n)) /\ UNCHANGED <<builds, tuners>>

\* A build from an assignment over the declared keys, or from the empty one.
BkBuildOf ==
    /\ \E n \in DOMAIN layers :
          \/ \E u \in {Whole(0), Whole(3)}, l \in 0..MaxSampled :
                BuildOf(n, BlockSample(Declared(n), u, Whole(l)))
          \/ BuildOf(n, EmptyDict)
    /\ UNCHANGED <<builds, tuners>>

BkResetOf == (\E n \in DOMAIN layers : built(layers[n]) /\ ResetOf(n)) /\ UNCHANGED <<builds, tuners>>

\* The construction procedure of a rectangular convolutional block called on
\* the tensor of the input layer, with a value for every local name the block
\* declares and, or not, a dropout rate.
BkDirectBuild ==
    /\ \E n \in DOMAIN layers :
          /\ layers[n].cls \in ConvRectangular
          /\ built(layers[1])
          /\ \E l \in 0..MaxSampled, rate \in {{}, {dropout_rate}}, s \in 1..2 :
                DirectBuildOf(n, Strided(BlockSample(LocalNames(n) \cup rate,
                                                     Whole(3), Whole(l)),
                                         Whole(s)))
    /\ UNCHANGED <<builds, tuners>>

NextBlock == BkNewLayer \/ BkSpaceOf \/ BkBuildOf \/ BkResetOf \/ BkDirectBuild

SpecBlock == Init /\ [][NextBlock]_vars

\* C8: space() returns, and every value of the mapping it returns is a
\* triple whose first item is a distribution kind.
SpaceReturnsTriples ==
    ret.op = "space" =>
        /\ ret.exc = "ok"
        /\ \A key \in DOMAIN ret.val :
              /\ Len(ret.val[key]) = 3
              /\ ret.val[key][1] \in distribution_names

\* The size parameters of the blocks.
Sizes == {units, filters}

\* The artifact the one input layer of layer n holds.
Predecessor(n) == layers[layers[n]._input_layers[1]]._layer

\* The tensors the construction procedure of layer n made.
MadeBy(n) == {h \in DOMAIN tensors : tensors[h].by = n}

\* The last call was a build of a block that ran its construction procedure
\* and returned.
BlockWasBuilt ==
    /\ ret.op = "build" /\ ret.exc = "ok"
    /\ layers[ret.target].cls \in BlockClasses
    /\ \E i \in DOMAIN ret.calls : ret.calls[i].node = ret.target

\* C9: a block built under an assignment that gives 0 to its units (or
\* filters) returns the artifact of its predecessor, and its construction
\* procedure made no tensor.
ZeroUnitsIsIdentity ==
    (/\ BlockWasBuilt
     /\ \E name \in Sizes :
           /\ Key(layers[ret.target], name) \in DOMAIN ret.kwargs
           /\ ret.kwargs[Key(layers[ret.target], name)] = Whole(0))
        => /\ ret.val = Predecessor(ret.target)
           /\ MadeBy(ret.target) = {}

\* The blocks one of whose size parameters is declared with min = max = 0.
PinnedToZero ==
    {n \in DOMAIN layers :
        /\ layers[n].cls \in BlockClasses
        /\ \E name \in DOMAIN Fixed(layers[n]) \cap (Sizes \cup {layers_}) :
              Fixed(layers[n])[name] = Whole(0)}

\* C10: a block with a size parameter pinned to zero has no key of its own
\* in its space, and a build of it returns the artifact of its predecessor.
SkipCollapse ==
    \A n \in PinnedToZero :
        /\ layers[n]._rendered_space # None
              => \A key \in DOMAIN Get(layers[n]._rendered_space) :
                    ~startswith(key, Key(layers[n], <<>>))
        /\ (BlockWasBuilt /\ ret.target = n) => ret.val = Predecessor(n)

\* C11: a space() call on a layer that has a rendered space returns that very
\* mapping; the declaration procedure runs only for a layer that has no
\* rendered space yet, at most once in a call, and leaves the layer with one,
\* so that it never runs again; and no call, build() and reset() included,
\* changes a rendered space.
SpaceDeclaresOnce ==
    [][/\ \A n \in DOMAIN layers :
              has_rendered_space(layers[n])
                  => layers'[n]._rendered_space = layers[n]._rendered_space
       /\ ret'.op = "space"
              => /\ has_rendered_space(layers[ret'.target])
                        => /\ ret'.exc = "ok"
                           /\ ret'.val = Get(layers[ret'.target]._rendered_space)
                 /\ \A i \in DOMAIN ret'.calls :
                        /\ ~has_rendered_space(layers[ret'.calls[i].node])
                        /\ has_rendered_space(layers'[ret'.calls[i].node])
                        /\ \A j \in DOMAIN ret'.calls :
                              j # i => ret'.calls[j].node # ret'.calls[i].node]_vars

\* C12: a build() call on a layer that holds an artifact returns that very
\* artifact, whatever the assignment, runs no construction procedure and
\* changes no layer; and the artifact a layer holds changes only by a reset()
\* of the layer or of one of its descendants.
CachedUntilReset ==
    [][/\ (ret'.op = "build" /\ layers[ret'.target]._layer # NoLayer)
              => /\ ret'.exc = "ok"
                 /\ ret'.val = layers[ret'.target]._layer
                 /\ ret'.calls = <<>>
                 /\ layers' = layers
       /\ \A n \in DOMAIN layers :
              (layers[n]._layer # NoLayer /\ layers'[n]._layer # layers[n]._layer)
                  => /\ ret'.op = "reset"
                     /\ n \in Subgraph(layers, ret'.target)]_vars

\* A build of a block returned, without running a construction procedure, a
\* tensor that the block made under another assignment.
CachedUntilResetWitness ==
    /\ ret.op = "build" /\ ret.exc = "ok" /\ ret.calls = <<>>
    /\ layers[ret.target].cls \in BlockClasses
    /\ ret.val.kind = "one"
    /\ tensors[ret.val.of[1]].by = ret.target
    /\ tensors[ret.val.of[1]].kw # ret.kwargs
    /\ ret.kwargs = EmptyDict

\* C13: reset() of a layer leaves the layer and each of its ancestors without
\* artifact and changes nothing else: every other attribute of every layer,
\* the artifacts of the other layers, the id counters and the meta-models are
\* as before.
ResetFrame ==
    [][ret'.op = "reset"
          => /\ layers' = [n \in DOMAIN layers |->
                              IF n \in Subgraph(layers, ret'.target)
                              THEN [layers[n] EXCEPT !._layer = NoLayer]
                              ELSE layers[n]]
             /\ UNCHANGED <<layer_ids, models, epoch>>]_vars

\* The input layer was reset while the block on top of it holds an artifact
\* and a rendered space: the block keeps both.
ResetFrameWitness ==
    /\ ret.op = "reset" /\ ret.target = 1
    /\ Len(layers) = 2
    /\ ~built(layers[1])
    /\ built(layers[2])
    /\ has_rendered_space(layers[2])
    /\ has_rendered_space(layers[1])

\* The dense blocks.
DenseBlocks == {DenseMetaLayer, DenseRectangularMetaLayer, HeadMetaLayer}

\* C15: for a dense block of any configuration space() returns, and a build
\* from an assignment over the keys of its space raises neither for a missing
\* nor for an unexpected parameter.
DenseSpaceCoversBuild ==
    (ret.op \in {"space", "build"} /\ layers[ret.target].cls \in DenseBlocks)
        => /\ ret.op = "space" => ret.exc = "ok"
           /\ (/\ ret.op = "build"
               /\ has_rendered_space(layers[ret.target])
               /\ DOMAIN ret.kwargs = DOMAIN Get(layers[ret.target]._rendered_space))
                  => ret.exc \notin {"TypeError", "KeyError"}

\* C16: for a rectangular convolutional block of any configuration space()
\* returns, and its construction procedure, given a value for every name the
\* block declares and layers >= 1, completes.
RectangularConvBuilds ==
    (ret.op \in {"space", "_build"} /\ layers[ret.target].cls \in ConvRectangular)
        => /\ ret.op = "space" => ret.exc = "ok"
           /\ (/\ ret.op = "_build"
               /\ LocalNames(ret.target) \subseteq DOMAIN ret.kwargs
               /\ round(ret.kwargs[layers_]) >= 1)
                  => ret.exc = "ok"

\* The tensors of the layers (Dense, Conv1D, Conv2D) block n chained.
SubOperations(n) ==
    {h \in MadeBy(n) : tensors[h].op \in {"Dense", "Conv1D", "Conv2D"}}

\* The last call built a rectangular block, from an assignment that gives a
\* size other than 0 and a number of layers.
RectangularWasBuilt ==
    /\ BlockWasBuilt
    /\ layers[ret.target].cls \in Rectangular
    /\ Key(layers[ret.target], layers_) \in DOMAIN ret.kwargs
    /\ \E name \in Sizes :
          /\ Key(layers[ret.target], name) \in DOMAIN ret.kwargs
          /\ int(ret.kwargs[Key(layers[ret.target], name)]) # 0

\* C19: a rectangular block built with a size other than 0 and n layers
\* chains exactly n layers; with n = 0 it returns the artifact of its
\* predecessor.
RectangularChain ==
    RectangularWasBuilt
        => /\ Cardinality(SubOperations(ret.target))
                 = round(ret.kwargs[Key(layers[ret.target], layers_)])
           /\ round(ret.kwargs[Key(layers[ret.target], layers_)]) = 0
                 => ret.val = Predecessor(ret.target)

\* The addition tensors block n made.
Adds(n) == {h \in MadeBy(n) : tensors[h].op = "Add"}

\* The tensors the layers of block n return: the activations.
SubOutputs(n) == {h \in MadeBy(n) : tensors[h].op = "Activation"}

\* The layer tensor under an activation.
RECURSIVE Kernel(_)
Kernel(h) ==
    IF tensors[h].op \in {"Activation", "BatchNormalization"}
    THEN Kernel(tensors[h].inputs[1])
    ELSE h

\* The residual flag; Conv1DResidualMetaLayer has none and always sums.
ResidualEnabled(layer) ==
    \/ layer.cls = Conv1DResidualMetaLayer
    \/ layer.cls # Conv1DResidualMetaLayer /\ layer.attrs.residual

\* C20: a rectangular block built with a size other than 0 makes at most one
\* addition; it makes one only when its residual flag is set and at least two
\* of its layers come before the addition; the addition sums the output of
\* the first layer of the block with the output of the last layer before the
\* final one, in this order, and its result is the input of the final layer,
\* whose output the block returns.
ResidualShape ==
    RectangularWasBuilt
        => /\ Cardinality(Adds(ret.target)) <= 1
           /\ \A s \in Adds(ret.target) :
                 /\ ResidualEnabled(layers[ret.target])
                 /\ Cardinality(SubOperations(ret.target) \cap Reach(tensors, {s})) >= 2
                 /\ Len(tensors[s].inputs) = 2
                 /\ tensors[s].inputs[1] \in SubOutputs(ret.target)
                 /\ tensors[s].inputs[2] \in SubOutputs(ret.target)
                 /\ tensors[Kernel(tensors[s].inputs[1])].inputs
                       = Handles(Predecessor(ret.target))
                 /\ SubOperations(ret.target) \cap Reach(tensors, {tensors[s].inputs[2]})
                       = SubOperations(ret.target) \cap Reach(tensors, {s})
                 /\ \E final \in SubOperations(ret.target) :
                       /\ SubOperations(ret.target) \ Reach(tensors, {s}) = {final}
                       /\ tensors[final].inputs = <<s>>
                       /\ ret.val.kind = "one"
                       /\ Kernel(ret.val.of[1]) = final

\* A residual dense block with batch normalization was built with 3 layers:
\* it made one addition.
ResidualShapeWitness ==
    /\ RectangularWasBuilt
    /\ layers[ret.target].cls = DenseRectangularMetaLayer
    /\ layers[ret.target].attrs.batch_normalization
    /\ round(ret.kwargs[Key(layers[ret.target], layers_)]) = 3
    /\ Cardinality(Adds(ret.target)) = 1

----------------------------------------------------------------------------
(* SpecCompose: meta-models of the four classes are constructed, nested    *)
(* into a multi-modal one, asked for their structure on a given input     *)
(* layer and for their space.                                              *)

CNN2DMetaModel == "CNN2DMetaModel"
CNN3DMetaModel == "CNN3DMetaModel"
MMNNMetaModel == "MMNNMetaModel"
MetaModel == "MetaModel"

\* One more Conv2DRectangularMetaLayer(**meta_layer_kwargs)(hidden), `blocks`
\* times.
RECURSIVE CNN2D_blocks(_, _, _, _)
CNN2D_blocks(g, blocks, meta_layer_kwargs, ep) ==
    IF blocks = 0 THEN g
    ELSE
      LET block == call(NewMetaLayer(g.ids, Conv2DRectangularMetaLayer,
                                     meta_layer_kwargs, <<"_">>, ep),
                        <<g.hidden>>)
      IN  CNN2D_blocks([ids |-> ids_after(g.ids, Conv2DRectangularMetaLayer),
                        ls |-> Append(g.ls, block),
                        hidden |-> Len(g.ls) + 1],
                       blocks - 1, meta_layer_kwargs, ep)

\* CNN2DMetaModel.structure(input_layer): the parameter is overwritten by a
\* new InputMetaLayer before it is read.  ms are the meta-models, of which
\* args.top_ffnn is self._top_ffnn.
CNN2D_structure(ids, ls, ms, args, input_layer, ep) ==
    Bind([ids |-> ids_after(ids, InputMetaLayer),
          ls |-> Append(ls, NewMetaLayer(ids, InputMetaLayer, EmptyDict, <<"_">>, ep)),
          hidden |-> Len(ls) + 1],
         LAMBDA start :
    Bind(CNN2D_blocks(start, args.blocks, args.meta_layer_kwargs, ep), LAMBDA body :
    Bind(FFNN_structure(ids_after(body.ids, FlattenMetaLayer),
                        Append(body.ls,
                               call(NewMetaLayer(body.ids, FlattenMetaLayer, EmptyDict,
                                                 <<"_">>, ep),
                                    <<body.hidden>>)),
                        ms[args.top_ffnn].args, Some(Len(body.ls) + 1), ep),
         LAMBDA top :
        [ids |-> top.ids, ls |-> top.ls,
         inputs |-> <<start.hidden>>, outputs |-> top.outputs])))

\* model.structure(input_layer) of a meta-model that can be nested.
nested_structure(ids, ls, ms, model, input_layer, ep) ==
    IF model.cls = FFNNMetaModel
    THEN FFNN_structure(ids, ls, model.args, input_layer, ep)
    ELSE CNN2D_structure(ids, ls, ms, model.args, input_layer, ep)

\* zip(*[model.structure() for model in self._input_models]): g carries the
\* counters, the layers and the two tuples.
RECURSIVE MMNN_inputs(_, _, _, _, _)
MMNN_inputs(g, ms, input_models, i, ep) ==
    IF i > Len(input_models) THEN g
    ELSE Bind(nested_structure(g.ids, g.ls, ms, ms[input_models[i]], None, ep),
              LAMBDA one :
            MMNN_inputs([ids |-> one.ids, ls |-> one.ls,
                         inputs |-> g.inputs \o one.inputs,
                         outputs |-> g.outputs \o one.outputs],
                        ms, input_models, i + 1, ep))

\* MMNNMetaModel.structure
MMNN_structure(ids, ls, ms, args, input_layer, ep) ==
    Bind(MMNN_inputs([ids |-> ids, ls |-> ls, inputs |-> <<>>, outputs |-> <<>>],
                     ms, args.input_models, 1, ep),
         LAMBDA made :
    Bind(nested_structure(ids_after(made.ids, ConcatenateMetaLayer),
                          Append(made.ls,
                                 call(NewMetaLayer(made.ids, ConcatenateMetaLayer,
                                                   EmptyDict, <<"_">>, ep),
                                      made.outputs)),
                          ms, ms[args.output_model], Some(Len(made.ls) + 1), ep),
         LAMBDA output :
        [ids |-> output.ids, ls |-> output.ls,
         inputs |-> made.inputs, outputs |-> output.outputs]))

\* The class whose `structure` attribute lookup finds for an instance of cls:
\* CNN3DMetaModel defines _structure, and no structure.
structure_owner(cls) == IF cls = CNN3DMetaModel THEN MetaModel ELSE cls

\* self.structure(input_layer) of an instance of cls:
\* [exc, ids, ls, inputs, outputs].
structure(ids, ls, ms, cls, args, input_layer, ep) ==
    IF structure_owner(cls) = MetaModel
    THEN [exc |-> "NotImplementedError", ids |-> ids, ls |-> ls,
          inputs |-> <<>>, outputs |-> <<>>]
    ELSE Bind(CASE cls = FFNNMetaModel -> FFNN_structure(ids, ls, args, input_layer, ep)
                [] cls = CNN2DMetaModel ->
                      CNN2D_structure(ids, ls, ms, args, input_layer, ep)
                [] cls = MMNNMetaModel ->
                      MMNN_structure(ids, ls, ms, args, input_layer, ep),
              LAMBDA made :
            [exc |-> "ok", ids |-> made.ids, ls |-> made.ls,
             inputs |-> made.inputs, outputs |-> made.outputs])

\* The __init__ of cls up to super().__init__(): the convolutional models
\* construct their FFNNMetaModel, which resets the counter on its own.
\* [ids, ls, ms, args, ep]
own_init(ids, ls, ms, cls, args, ep) ==
    IF cls \in {CNN2DMetaModel, CNN3DMetaModel}
    THEN Bind(FFNN_init(ids, ls, args.top_ffnn_meta_model_kwargs, ep + 1),
              LAMBDA top :
            [ids |-> top.ids, ls |-> top.ls, ms |-> Append(ms, top.model),
             args |-> [blocks |-> args.blocks,
                       meta_layer_kwargs |-> args.meta_layer_kwargs,
                       top_ffnn |-> Len(ms) + 1],
             ep |-> ep + 1])
    ELSE [ids |-> ids, ls |-> ls, ms |-> ms, args |-> args, ep |-> ep]

\* cls(**args): own_init, then MetaModel.__init__: the counter reset and
\* self.structure().  When structure() raises no object is left: the layers
\* and the FFNNMetaModel made on the way are unreachable.
NewMetaModel(cls, args) ==
    Bind(own_init(layer_ids, layers, models, cls, args, epoch), LAMBDA self :
    Bind(structure(reset_counter, self.ls, self.ms, cls, self.args, None, self.ep + 1),
         LAMBDA made :
        /\ epoch' = self.ep + 1
        /\ layer_ids' = made.ids
        /\ layers' = IF made.exc = "ok" THEN made.ls ELSE layers
        /\ models' = IF made.exc = "ok"
                     THEN Append(self.ms,
                                 [cls |-> cls, args |-> self.args, _rendered |-> FALSE,
                                  _inputs |-> made.inputs, _outputs |-> made.outputs])
                     ELSE models
        /\ ret' = Ret("MetaModel", IF made.exc = "ok" THEN Len(self.ms) + 1 ELSE 0,
                      [cls |-> cls], made.exc, Some(structure_owner(cls)), <<>>, {})
        /\ UNCHANGED tensors))

\* models[m].structure(input_layer=layers[x]); `made` are the layers the call
\* constructed.
StructureOf(m, x) ==
    Bind(structure(layer_ids, layers, models, models[m].cls, models[m].args,
                   Some(x), epoch),
         LAMBDA made :
        /\ layer_ids' = made.ids
        /\ layers' = made.ls
        /\ ret' = Ret("structure", m, [input_layer |-> x], made.exc,
                      [inputs |-> made.inputs, outputs |-> made.outputs,
                       made |-> (Len(layers) + 1)..Len(made.ls)],
                      <<>>, {})
        /\ UNCHANGED <<models, tensors, epoch>>)

NestedBlocks == 1
MaxModels == 5
MaxNodes == 8
MaxEpochs == 4

\* The meta-models that can be nested.
Nestable == {m \in DOMAIN models : models[m].cls \in {FFNNMetaModel, CNN2DMetaModel}}

\* FFNNMetaModel(blocks=..., headless=...), with and without head.
NestedFFNNArgs ==
    {FFNNArgs(NestedBlocks, headless) : headless \in BOOLEAN}

\* CNN2DMetaModel(blocks=..., meta_layer_kwargs=...,
\* top_ffnn_meta_model_kwargs=dict(headless=True)), with the meta_layer_kwargs
\* of tests/test_mmnn_meta_models.py and with none.
CNNArgs ==
    {[blocks |-> NestedBlocks, meta_layer_kwargs |-> kwargs,
      top_ffnn_meta_model_kwargs |-> FFNNArgs(NestedBlocks, TRUE)] :
        kwargs \in {EmptyDict, [batch_normalization |-> TRUE]}}

\* The multi-modal meta-models constructed so far.
MultiModal == {m \in DOMAIN models : models[m].cls = MMNNMetaModel}

\* The structure(input_layer=...) calls come last in a run.
CpNewFFNN ==
    /\ ret.op # "structure"
    /\ Len(models) < MaxModels
    /\ \E args \in NestedFFNNArgs : NewMetaModel(FFNNMetaModel, args)
    /\ UNCHANGED <<builds, tuners>>

CpNewCNN2D ==
    /\ ret.op # "structure"
    /\ Len(models) + 1 < MaxModels
    /\ \E args \in CNNArgs : NewMetaModel(CNN2DMetaModel, args)
    /\ UNCHANGED <<builds, tuners>>

CpNewCNN3D ==
    /\ ret.op # "structure"
    /\ epoch + 1 < MaxEpochs
    /\ \E args \in CNNArgs : NewMetaModel(CNN3DMetaModel, args)
    /\ UNCHANGED <<builds, tuners>>

\* One or two distinct input models and an output model; one multi-modal
\* meta-model in a run.
CpNewMMNN ==
    /\ ret.op # "structure"
    /\ MultiModal = {}
    /\ Len(models) < MaxModels
    /\ \E a, b, o \in Nestable :
          NewMetaModel(MMNNMetaModel,
                       [input_models |-> IF a = b THEN <<a>> ELSE <<a, b>>,
                        output_model |-> o])
    /\ UNCHANGED <<builds, tuners>>

\* The input layer given is the input or the output layer of a meta-model.
CpStructureOf ==
    /\ Len(layers) < MaxNodes
    /\ \E m, k \in Nestable :
          \E x \in {models[k]._inputs[1], models[k]._outputs[1]} : StructureOf(m, x)
    /\ UNCHANGED <<builds, tuners>>

\* space() of the multi-modal meta-model.
CpModelSpace ==
    /\ ret.op # "structure"
    /\ \E m \in MultiModal : ModelSpace(m)
    /\ UNCHANGED <<builds, tuners>>

NextCompose ==
    CpNewFFNN \/ CpNewCNN2D \/ CpNewCNN3D \/ CpNewMMNN \/ CpStructureOf \/ CpModelSpace

SpecCompose == Init /\ [][NextCompose]_vars

\* C14: constructing a meta-model of any of the four classes runs the
\* structure procedure of that class, never the abstract one of MetaModel that
\* raises NotImplementedError, and leaves a model with at least one input
\* layer and at least one output layer.
ConstructionRunsOwnStructure ==
    ret.op = "MetaModel"
        => /\ ret.exc = "ok"
           /\ ret.val = Some(ret.kwargs.cls)
           /\ models[ret.target]._inputs # <<>>
           /\ models[ret.target]._outputs # <<>>

\* The layers of the graph a multi-modal meta-model composed, and those of
\* its branch number i.
Composed(m) ==
    ModelNodes(m) \cup
        UNION {Subgraph(layers, models[m]._inputs[i]) : i \in DOMAIN models[m]._inputs}

\* The namespace keys of the parameters the layers in `nodes` declare with
\* low different from high.
FreeKeys(nodes) ==
    UNION {{Key(layers[n], name) : name \in LocalNames(n) \ DOMAIN Fixed(layers[n])} :
              n \in nodes}

\* C17: in a multi-modal meta-model no two distinct layers of the composed
\* graph have the same namespace prefix, and space() returns exactly one key
\* for each layer and each parameter the layer does not fix; the keys of two
\* distinct layers are different.
IsolatedNamespaces ==
    \A m \in MultiModal :
            /\ \A a, b \in Composed(m) :
                  a # b => layer_prefix(layers[a]) # layer_prefix(layers[b])
            /\ (ret.op = "MetaModel.space" /\ ret.target = m)
                  => /\ ret.exc = "ok"
                     /\ DOMAIN ret.val = FreeKeys(Composed(m))
                     /\ \A a, b \in Composed(m) :
                           a # b => FreeKeys({a}) \cap FreeKeys({b}) = {}

\* C18: structure(input_layer=X) of an FFNNMetaModel or a CNN2DMetaModel
\* constructs no InputMetaLayer, wires the first layer it constructs to X,
\* returns X as the input layer and output layers that have X among their
\* ancestors.
StructureSplices ==
    ret.op = "structure"
        => /\ ret.exc = "ok"
           /\ \A n \in ret.val.made : layers[n].cls # InputMetaLayer
           /\ \A n \in ret.val.made :
                 (\A k \in ret.val.made : n <= k)
                     => layers[n]._input_layers = <<ret.kwargs.input_layer>>
           /\ ret.val.inputs = <<ret.kwargs.input_layer>>
           /\ \A i \in DOMAIN ret.val.outputs :
                 ret.kwargs.input_layer \in Subgraph(layers, ret.val.outputs[i])

\* The tensors the construction procedure called last made before it returned
\* or raised, those of an attempt that raised included.
Attempted ==
    Bind(local_build(layers[ret.target], tensors, ret.calls[1].input_layers,
                     ret.kwargs, [by |-> ret.target, kw |-> ret.kwargs]),
         LAMBDA made : [h \in DOMAIN made.ts \ DOMAIN tensors |-> made.ts[h]])

\* The strides a rectangular convolutional block hands to its last layer, and
\* the strides of a layer that is given none.
SampledStrides(kwargs) ==
    IF strides \in DOMAIN kwargs THEN Whole(round(kwargs[strides]))
    ELSE <<round(kwargs[x_strides]), round(kwargs[y_strides])>>

UnitStrides(kwargs) == IF strides \in DOMAIN kwargs THEN Whole(1) ELSE <<1, 1>>

\* C21: when the construction procedure of a rectangular convolutional block
\* is given layers >= 1 and filters other than 0, the last convolution of the
\* chain has the sampled strides and every other convolution has strides 1.
StrideOnLastOnly ==
    (/\ ret.op = "_build"
     /\ layers[ret.target].cls \in ConvRectangular
     /\ LocalNames(ret.target) \cup {dropout_rate} \subseteq DOMAIN ret.kwargs
     /\ round(ret.kwargs[layers_]) >= 1
     /\ round(ret.kwargs[filters]) # 0)
        => LET convs == {h \in DOMAIN Attempted :
                            Attempted[h].op \in {"Conv1D", "Conv2D"}}
           IN  /\ convs # {}
               /\ \A h \in convs :
                     Attempted[h].args.strides
                        = IF \A g \in convs : g <= h THEN SampledStrides(ret.kwargs)
                          ELSE UnitStrides(ret.kwargs)

----------------------------------------------------------------------------
(* SpecUnion: a meta-model, or a graph of an input layer, dense layers     *)
(* with free or with fixed units and concatenations; layers are added      *)
(* while the spaces of earlier ones are already rendered.                  *)

\* The first layer is an input layer or a dense layer not given any input.
UnNewLayer ==
    /\ Len(layers) < GraphLayers
    /\ \/ /\ layers = <<>>
          /\ \E cls \in {InputMetaLayer, DenseMetaLayer} :
                NewWired(cls, EmptyDict, <<"_">>, <<>>)
       \/ \E p \in DOMAIN layers, kwargs \in {EmptyDict, FixedUnits} :
              NewWired(DenseMetaLayer, kwargs, <<"_">>, <<p>>)
       \/ \E k \in 2..MaxFanIn :
              \E ps \in Increasing(Len(layers), k) :
                  NewWired(ConcatenateMetaLayer, EmptyDict, <<"_">>, ps)
    /\ UNCHANGED <<builds, tuners>>

UnSpaceOf == (\E n \in DOMAIN layers : SpaceOf(n)) /\ UNCHANGED <<builds, tuners>>

\* The meta-model is constructed first.
UnNewModel ==
    /\ layers = <<>>
    /\ \E meta_layer_kwargs \in {EmptyDict, FixedUnits} :
          NewFFNNMetaModel([blocks |-> 1, headless |-> FALSE,
                            meta_layer_kwargs |-> meta_layer_kwargs,
                            output_units |-> Whole(1)])
    /\ UNCHANGED <<builds, tuners>>

UnModelSpace == (\E m \in DOMAIN models : ModelSpace(m)) /\ UNCHANGED <<builds, tuners>>

NextUnion == UnNewLayer \/ UnSpaceOf \/ UnNewModel \/ UnModelSpace

SpecUnion == Init /\ [][NextUnion]_vars

\* C22: the keys of the rendered space of a layer are the namespace keys of
\* the parameters that the layer and each of its ancestors declare and do not
\* fix; a space() call asks a layer reachable by several paths for its
\* declarations once; and the keys MetaModel.space returns are those of the
\* rendered spaces of the output layers and of the model's own declarations.
SpaceIsUnion ==
    /\ \A n \in DOMAIN layers :
          layers[n]._rendered_space # None
              => DOMAIN Get(layers[n]._rendered_space) = FreeKeys(Subgraph(layers, n))
    /\ ret.op = "space" => \A n \in DOMAIN layers : Invocations(n) <= 1
    /\ (ret.op = "MetaModel.space" /\ ret.exc = "ok")
          => DOMAIN ret.val
                = UNION {DOMAIN Get(layers[models[ret.target]._outputs[i]]._rendered_space) :
                            i \in DOMAIN models[ret.target]._outputs}
                    \cup DOMAIN model_space(models[ret.target])

\* The space of a diamond was rendered in one call: a concatenation of a
\* dense layer with free units and one with fixed units that share their
\* input, itself a dense layer with free units, whose keys are there once.
SpaceIsUnionWitness ==
    /\ ret.op = "space" /\ ret.exc = "ok"
    /\ layers[ret.target].cls = ConcatenateMetaLayer
    /\ \E a, b, c \in DOMAIN layers :
          /\ layers[ret.target]._input_layers = <<b, c>>
          /\ layers[b]._input_layers = <<a>> /\ layers[c]._input_layers = <<a>>
          /\ layers[a].cls = DenseMetaLayer
          /\ Fixed(layers[b]) = EmptyDict /\ units \in DOMAIN Fixed(layers[c])
          /\ Invocations(a) = 1 /\ Invocations(b) = 1 /\ Invocations(c) = 1
          /\ Key(layers[a], units) \in DOMAIN ret.val
          /\ Key(layers[b], units) \in DOMAIN ret.val
          /\ Key(layers[c], units) \notin DOMAIN ret.val

\* The artifacts the input layers of layer n hold, in their order.
Artifacts(n) ==
    [j \in DOMAIN layers[n]._input_layers |-> layers[layers[n]._input_layers[j]]._layer]

\* C23: the construction procedure of a layer is handed None when the layer
\* has no input layer, the artifact itself of its input layer when it has
\* one, given as a meta-layer or as a list of one meta-layer, and the list of
\* the artifacts of its input layers, in their order, when it has several.
ShapeRule ==
    ret.op = "build" =>
        \A i \in DOMAIN ret.calls :
            LET n == ret.calls[i].node
                given == ret.calls[i].input_layers
            IN  /\ Len(layers[n]._input_layers) = 0 => given = NoLayer
                /\ Len(layers[n]._input_layers) = 1
                      => given = Artifacts(n)[1] /\ given.kind = "one"
                /\ Len(layers[n]._input_layers) >= 2
                      => /\ given.kind = "list"
                         /\ given.of = Artifacts(n)
                         /\ \A j \in DOMAIN given.of : given.of[j].kind = "one"

\* One build ran the construction procedures of a layer without input
\* layers, of a layer with one and of a layer with two distinct ones.
ShapeRuleWitness ==
    /\ ret.op = "build" /\ ret.exc = "ok"
    /\ \E i, j, k \in DOMAIN ret.calls :
          /\ layers[ret.calls[i].node]._input_layers = <<>>
          /\ ret.calls[i].input_layers = NoLayer
          /\ Len(layers[ret.calls[j].node]._input_layers) = 1
          /\ ret.calls[j].input_layers.kind = "one"
          /\ Len(layers[ret.calls[k].node]._input_layers) = 2
          /\ ret.calls[k].input_layers.kind = "list"
          /\ ret.calls[k].input_layers.of[1] # ret.calls[k].input_layers.of[2]

\* The layers reached from the input and the output layers of meta-model m.
Reachable(m) ==
    ModelNodes(m) \cup
        UNION {Subgraph(layers, models[m]._inputs[i]) : i \in DOMAIN models[m]._inputs}

\* The layers of meta-model m whose construction procedure has a parameter
\* that neither the assignment nor the rendered defaults of the layer give.
Lacking(m, kwargs) ==
    {n \in Reachable(m) :
        /\ layers[n]._rendered_defaults # None
        /\ LocalNames(n) \ DOMAIN OwnParameters(layers[n], kwargs) # {}}

\* C24: when the assignment of a MetaModel.build call and the defaults of a
\* layer N of the model give no value to a parameter of the construction
\* procedure of N, the call raises the missing-argument TypeError, and
\* afterwards neither N nor a layer that has N among its ancestors holds an
\* artifact.
MissingParameterFails ==
    ret.op = "MetaModel.build" =>
        \A n \in Lacking(ret.target, ret.kwargs) :
            /\ ret.exc = "TypeError"
            /\ \A d \in Reachable(ret.target) :
                  n \in Subgraph(layers, d) => layers[d]._layer = NoLayer

\* C25: after a MetaModel.build call that raised, no layer reached from the
\* inputs and the outputs of the model holds an artifact.
NoResidueAfterFailure ==
    (ret.op = "MetaModel.build" /\ ret.exc # "ok")
        => \A n \in Reachable(ret.target) : layers[n]._layer = NoLayer


\* What call record c handed over as the artifact of its j-th input layer.
Consumed(c, j) ==
    IF Len(layers[c.node]._input_layers) = 1 THEN c.input_layers
    ELSE c.input_layers.of[j]

\* C26: in a MetaModel.build that returned a model, the construction
\* procedure of every input layer of the model ran exactly once, and the
\* handle at its place in the inputs of the model is the artifact every
\* layer wired to it was handed for it.
InputsBuiltOnce ==
    (ret.op = "MetaModel.build" /\ ret.exc = "ok") =>
        \A i \in DOMAIN models[ret.target]._inputs :
            LET n == models[ret.target]._inputs[i]
            IN  /\ Invocations(n) = 1
                /\ \A k \in DOMAIN ret.calls :
                      \A j \in DOMAIN layers[ret.calls[k].node]._input_layers :
                          layers[ret.calls[k].node]._input_layers[j] = n
                              => Consumed(ret.calls[k], j) = ret.val.inputs[i]


\* C27: a MetaModel.build, made before any space() call or after one, leaves
\* every layer reached from the inputs and the outputs of the model with its
\* rendered defaults computed, and every construction procedure it ran was
\* handed the defaults of its layer under their local names.
BuildRendersFirst ==
    ret.op = "MetaModel.build" =>
        /\ \A n \in Reachable(ret.target) : layers[n]._rendered_defaults # None
        /\ \A k \in DOMAIN ret.calls :
              LET n == ret.calls[k].node
                  defaults == filter_relevant_kwargs(
                                  layers[n], Get(layers[n]._rendered_defaults))
              IN  \A key \in DOMAIN defaults :
                      /\ key \in DOMAIN ret.calls[k].kwargs
                      /\ ret.calls[k].kwargs[key] = defaults[key]

\* The first call on a model is a build: it returned the model after it ran
\* the construction procedures of three layers, one of them with a default.
BuildRendersFirstWitness ==
    /\ ret.op = "MetaModel.build" /\ ret.unrendered /\ ret.exc = "ok"
    /\ Len(ret.calls) >= 3
    /\ \E k \in DOMAIN ret.calls :
          /\ Get(layers[ret.calls[k].node]._rendered_defaults) # EmptyDict
          /\ units \in DOMAIN ret.calls[k].kwargs


\* The keys of the rendered defaults the assignment of the last call carries.
Carried(m, kwargs) ==
    {key \in DOMAIN kwargs :
        \E n \in Reachable(m) :
            /\ layers[n]._rendered_defaults # None
            /\ key \in DOMAIN Get(layers[n]._rendered_defaults)}

\* C28: a MetaModel.build under an assignment that holds every declared key
\* and also the key of a rendered default does not raise, and the layer of
\* that default is constructed with the declared value.
DefaultKeyTolerated ==
    (/\ ret.op = "MetaModel.build"
     /\ Carried(ret.target, ret.kwargs) # {}
     /\ ModelKeys(ret.target) \subseteq DOMAIN ret.kwargs)
        => /\ ret.exc = "ok"
           /\ \A k \in DOMAIN ret.calls :
                 LET n == ret.calls[k].node
                     defaults == filter_relevant_kwargs(
                                     layers[n], Get(layers[n]._rendered_defaults))
                 IN  \A key \in DOMAIN defaults :
                         ret.calls[k].kwargs[key] = defaults[key]


----------------------------------------------------------------------------
(* The tuner adapters: from the space mapping to the search domain handed  *)
(* to each back-end.  `space` is the mapping MetaModel.space returned, or  *)
(* the one the caller passed, key -> (kind, low, high).  A list of         *)
(* dictionaries with a "name" entry is the function from the names.        *)

MaxHigh == 3

\* The keys of `space` of the real and integer kinds.
Numeric(space_) == {key \in DOMAIN space_ : space_[key][1] \in {"real", "integer"}}

\* RayAxTuner._parse_space
RayAx_parse_space(space_) ==
    [key \in Numeric(space_) |->
        [type |-> "range",
         bounds |-> <<space_[key][2], space_[key][3] + Whole(1)>>,
         value_type |-> IF space_[key][1] = "real" THEN "float" ELSE "int",
         log_scale |-> FALSE]]

\* list(range(start, stop)) of two whole numbers.
range(start, stop) ==
    [i \in 1..(IF stop > start THEN int(stop) - int(start) ELSE 0) |->
        start + Whole(i - 1)]

\* The comprehension of RayHyperOptTuner._build_search_alg.
RayHyperOpt_build_search_alg(space_) ==
    [key \in DOMAIN space_ |->
        IF space_[key][1] = "real"
        THEN [sampler |-> "uniform", lower |-> space_[key][2], upper |-> space_[key][3]]
        ELSE IF space_[key][1] = "integer"
        THEN [sampler |-> "choice", categories |-> range(space_[key][2], space_[key][3])]
        ELSE [sampler |-> "choice", categories |-> Tail(space_[key])]]

\* The comprehension of RayBayesianOptimizationTuner._build_search_alg.
RayBayesianOptimization_build_search_alg(space_) ==
    [key \in Numeric(space_) |-> <<space_[key][2], space_[key][3]>>]

\* RayDragonflyTuner._parse_space
RayDragonfly_parse_space(space_) ==
    [key \in Numeric(space_) |->
        [type |-> IF space_[key][1] = "real" THEN "float" ELSE "int",
         min |-> space_[key][2], max |-> space_[key][3]]]

\* list(np.linspace(start, stop, num=num)), num >= 2.
linspace(start, stop, num) ==
    [i \in 1..num |-> start + ((i - 1) * (stop - start)) \div (num - 1)]

\* RayPopulationBasedBanditsTuner._parse_space
RayPopulationBasedBandits_parse_space(space_, samples) ==
    [key \in Numeric(space_) |-> linspace(space_[key][2], space_[key][3], samples)]

\* The numbers the checks range over: the halves from 0 to MaxHigh + 2.
Grid == {100 * k : k \in 0..(2 * (MaxHigh + 2))}

IsWhole(v) == v % 200 = 0

\* Whether the back-end of adapter cls may propose v for a parameter with the
\* domain entry `entry`: an Ax range and a Dragonfly min/max are closed, and
\* hold whole numbers only when typed int; tune.uniform and the bounds of
\* BayesOptSearch and PB2 are intervals; tune.choice is its categories.
Proposes(cls, entry, v) ==
    CASE cls = "RayAxTuner" ->
            /\ entry.bounds[1] <= v /\ v <= entry.bounds[2]
            /\ entry.value_type = "int" => IsWhole(v)
      [] cls = "RayHyperOptTuner" ->
            IF entry.sampler = "uniform" THEN entry.lower <= v /\ v <= entry.upper
            ELSE v \in Range(entry.categories)
      [] cls = "RayBayesianOptimizationTuner" -> entry[1] <= v /\ v <= entry[2]
      [] cls = "RayDragonflyTuner" ->
            /\ entry.min <= v /\ v <= entry.max
            /\ entry.type = "int" => IsWhole(v)
      [] cls = "RayPopulationBasedBanditsTuner" ->
            /\ \E i \in DOMAIN entry : entry[i] <= v
            /\ \E i \in DOMAIN entry : v <= entry[i]

\* The declarations a space is drawn from: real and integer ranges of whole
\* bounds up to MaxHigh, a real range that starts at a half, and a choice.
Triples ==
    {t \in {<<kind, Whole(low), Whole(high)>> :
               kind \in {"real", "integer"}, low \in 0..MaxHigh, high \in 0..MaxHigh} :
        t[2] <= t[3]}
    \cup {<<"real", Real(0, 100), Whole(1)>>, <<"choice", Whole(1), Whole(3)>>}

\* The spaces of one and of two parameters.
Spaces == [{units} -> Triples] \cup [{units, layers_} -> Triples]

\* The record of an adapter call: the space it read and the domain it made.
Adapted(cls, space_, domain) ==
    /\ ret' = Ret("search_space", 0, space_, "ok", [cls |-> cls, domain |-> domain],
                  <<>>, {})
    /\ UNCHANGED <<layer_ids, layers, models, tensors, epoch, builds, tuners>>

\* The adapters keep no state, so a behaviour makes one call.
AdRayAx ==
    /\ ret.op = "none"
    /\ \E space_ \in Spaces :
          Adapted("RayAxTuner", space_, RayAx_parse_space(space_))

AdRayHyperOpt ==
    /\ ret.op = "none"
    /\ \E space_ \in Spaces :
          Adapted("RayHyperOptTuner", space_, RayHyperOpt_build_search_alg(space_))

AdRayBayesianOptimization ==
    /\ ret.op = "none"
    /\ \E space_ \in Spaces :
          Adapted("RayBayesianOptimizationTuner", space_,
                  RayBayesianOptimization_build_search_alg(space_))

AdRayDragonfly ==
    /\ ret.op = "none"
    /\ \E space_ \in Spaces :
          Adapted("RayDragonflyTuner", space_, RayDragonfly_parse_space(space_))

\* samples is 2 or 3: the steps of linspace are then whole two-hundredths.
AdRayPopulationBasedBandits ==
    /\ ret.op = "none"
    /\ \E space_ \in Spaces, samples \in 2..3 :
          Adapted("RayPopulationBasedBanditsTuner", space_,
                  RayPopulationBasedBandits_parse_space(space_, samples))

NextAdapter ==
    AdRayAx \/ AdRayHyperOpt \/ AdRayBayesianOptimization \/ AdRayDragonfly
        \/ AdRayPopulationBasedBandits

SpecAdapter == Init /\ [][NextAdapter]_vars

\* C29: for every parameter the space declares as (kind, low, high) with kind
\* real or integer, the domain an adapter hands to its back-end has an entry
\* whose values are exactly those of the closed range: none below low, none
\* above high, every number from low to high for a real kind and every
\* integer from low to high for an integer kind.
DomainCoversRange ==
    ret.op = "search_space" =>
        \A key \in Numeric(ret.kwargs) :
            LET kind == ret.kwargs[key][1]
                low == ret.kwargs[key][2]
                high == ret.kwargs[key][3]
            IN  /\ key \in DOMAIN ret.val.domain
                /\ \A v \in Grid :
                      /\ Proposes(ret.val.cls, ret.val.domain[key], v)
                            => low <= v /\ v <= high
                      /\ (low <= v /\ v <= high /\ (kind = "integer" => IsWhole(v)))
                            => Proposes(ret.val.cls, ret.val.domain[key], v)


----------------------------------------------------------------------------
(* The Tuner: a meta-model, the model built last and the configuration the *)
(* tuning found                                                            *)

MaxCalls == 3

\* Tuner.__init__.  `tuned` is not an attribute: whether a tune() call of
\* this tuner has completed.
Tuner_init(cls, meta_model) ==
    [cls |-> cls, _meta_model |-> meta_model, _model |-> None,
     _optimal_config |-> None, _analysis |-> None, tuned |-> FALSE]

\* What a Tuner call leaves: the tuner, the layers, the tensors, the _build
\* invocations made, an outcome and the returned value.
Tuned(self, ls, ts, calls, exc, val) ==
    [self |-> self, ls |-> ls, ts |-> ts, calls |-> calls, exc |-> exc, val |-> val]

\* Tuner.build: config is None or Some(assignment).  compile() is taken to
\* return.
Tuner_build(self, ls, ts, model, config) ==
    IF config = None /\ self._optimal_config = None
    THEN Tuned(self, ls, ts, <<>>, "ValueError", None)
    ELSE
      Bind(MetaModel_build(ls, ts, model,
                           IF config = None THEN Get(self._optimal_config)
                           ELSE Get(config)),
           LAMBDA b :
        IF b.exc # "ok" THEN Tuned(self, b.ls, b.ts, b.calls, b.exc, None)
        ELSE Tuned([self EXCEPT !._model = Some(b.val)], b.ls, b.ts, b.calls,
                   "ok", b.val))

\* Tuner.fit: the build, then self._model.fit(*train, ...), which raises
\* TypeError on the default train = None.  enable_subgpu_training() is taken
\* to return.
Tuner_fit(self, ls, ts, model, config, train) ==
    Bind(Tuner_build(self, ls, ts, model, config), LAMBDA b :
        IF b.exc # "ok" THEN b
        ELSE IF train = None THEN [b EXCEPT !.exc = "TypeError", !.val = None]
        ELSE [b EXCEPT !.val = Some("history")])

\* Tuner.evaluate
Tuner_evaluate(self) ==
    IF self._model = None THEN Raise("ValueError") ELSE Ok(Some("metrics"))

\* Tuner.summary
Tuner_summary(self) ==
    IF self._model = None THEN Raise("ValueError") ELSE Ok(None)

\* A property that hands over what is stored, unchecked.
unchecked_configuration(self) == Ok(self._optimal_config)

\* Tuner.optimal_configuration
Tuner_optimal_configuration(self) ==
    IF self._optimal_config = None THEN Raise("ValueError")
    ELSE Ok(Some(Get(self._optimal_config)))

\* Tuner.tune, and RayTuner.tune under the three outcomes of its two steps:
\* tune.run raises; tune.run returns and the data frame of the analysis has
\* no column of the metric; both return and `config` is the best row.  The
\* trials of tune.run work on copies of the tuner in their own processes.
Tuner_tune(self, outcome, config) ==
    IF self.cls = "Tuner" THEN Tuned(self, <<>>, <<>>, <<>>, "NotImplementedError", None)
    ELSE IF outcome = "raises" THEN Tuned(self, <<>>, <<>>, <<>>, "TuneError", None)
    ELSE IF outcome = "no_metric"
    THEN Tuned([self EXCEPT !._analysis = Some("analysis")], <<>>, <<>>, <<>>,
               "KeyError", None)
    ELSE Tuned([self EXCEPT !._analysis = Some("analysis"),
                            !._optimal_config = Some(config),
                            !.tuned = TRUE],
               <<>>, <<>>, <<>>, "ok", Some("dataframe"))

\* The handles of the models the tuners store.
TunerHandles(tn) ==
    UNION {IF tn[t]._model = None THEN {}
           ELSE AllHandles(Get(tn[t]._model).inputs)
                    \cup AllHandles(Get(tn[t]._model).outputs) : t \in DOMAIN tn}

\* The tensors something still refers to, the tuners included.
Kept(ts, ls, r, tn) ==
    Bind(Reach(ts, RetHandles(r) \cup TunerHandles(tn) \cup
                   UNION {Range(Handles(ls[n]._layer)) : n \in DOMAIN ls}),
         LAMBDA alive : [h \in alive |-> ts[h]])

\* A call of tuner t that went through Tuner.build and left `b`.
Through(op, t, config, b) ==
    /\ tuners' = [tuners EXCEPT ![t] = b.self]
    /\ layers' = b.ls
    /\ models' = IF config = None /\ tuners[t]._optimal_config = None THEN models
                 ELSE [models EXCEPT ![tuners[t]._meta_model]._rendered = TRUE]
    /\ ret' = Ret(op, t, config, b.exc, b.val, b.calls, {})
    /\ tensors' = Kept(b.ts, layers', ret', tuners')
    /\ UNCHANGED <<layer_ids, epoch>>

\* A call of tuner t that touches the tuner only.
Plain(op, t, self, r) ==
    /\ tuners' = [tuners EXCEPT ![t] = self]
    /\ ret' = Ret(op, t, None, r.exc, r.val, <<>>, {})
    /\ UNCHANGED <<layer_ids, layers, models, tensors, epoch>>

\* The configurations a call is given: none, a complete one, the empty one.
Configs(m) == {None, Some(Sample(ModelKeys(m), Whole(3), Whole(1))), Some(EmptyDict)}

TnNewModel ==
    /\ models = <<>>
    /\ NewFFNNMetaModel(FFNNArgs(1, FALSE))
    /\ UNCHANGED <<builds, tuners>>

TnNewTuner ==
    /\ models # <<>> /\ tuners = <<>>
    /\ \E cls \in {"Tuner", "RayBayesianOptimizationTuner"} :
          /\ tuners' = <<Tuner_init(cls, 1)>>
          /\ ret' = Ret("Tuner", 1, None, "ok", None, <<>>, {})
    /\ UNCHANGED <<layer_ids, layers, models, tensors, epoch, builds>>

TnBuild ==
    /\ builds < MaxCalls /\ builds' = builds + 1
    /\ \E t \in DOMAIN tuners : \E config \in Configs(tuners[t]._meta_model) :
          Through("Tuner.build", t, config,
                  Tuner_build(tuners[t], layers, tensors,
                              models[tuners[t]._meta_model], config))

TnFit ==
    /\ builds < MaxCalls /\ builds' = builds + 1
    /\ \E t \in DOMAIN tuners : \E config \in Configs(tuners[t]._meta_model) :
          \E train \in {None, Some("train")} :
              Through("Tuner.fit", t, config,
                      Tuner_fit(tuners[t], layers, tensors,
                                models[tuners[t]._meta_model], config, train))

TnEvaluate ==
    /\ builds < MaxCalls /\ builds' = builds + 1
    /\ \E t \in DOMAIN tuners :
          Plain("Tuner.evaluate", t, tuners[t], Tuner_evaluate(tuners[t]))

TnSummary ==
    /\ builds < MaxCalls /\ builds' = builds + 1
    /\ \E t \in DOMAIN tuners :
          Plain("Tuner.summary", t, tuners[t], Tuner_summary(tuners[t]))

TnOptimalConfiguration ==
    /\ builds < MaxCalls /\ builds' = builds + 1
    /\ \E t \in DOMAIN tuners :
          Plain("Tuner.optimal_configuration", t, tuners[t],
                Tuner_optimal_configuration(tuners[t]))

TnTune ==
    /\ builds < MaxCalls /\ builds' = builds + 1
    /\ \E t \in DOMAIN tuners :
          \E outcome \in {"raises", "no_metric", "completes"} :
              \E config \in Configs(tuners[t]._meta_model) \ {None} :
                  Bind(Tuner_tune(tuners[t], outcome, Get(config)), LAMBDA b :
                      Plain("Tuner.tune", t, b.self, b))

NextTuner ==
    TnNewModel \/ TnNewTuner \/ TnBuild \/ TnFit \/ TnEvaluate \/ TnSummary
        \/ TnOptimalConfiguration \/ TnTune

SpecTuner == Init /\ [][NextTuner]_vars

\* C30: on a tuner no tune() call of which has completed, a read of
\* optimal_configuration, a build without configuration and a fit without
\* configuration raise ValueError and leave the stored model and the stored
\* optimal configuration as they were; on a tuner that stores no model,
\* evaluate() and summary() raise ValueError.
UntunedRaises ==
    [][\A t \in DOMAIN tuners :
          /\ (/\ ret'.target = t
              /\ ~tuners[t].tuned
              /\ \/ ret'.op = "Tuner.optimal_configuration"
                 \/ ret'.op \in {"Tuner.build", "Tuner.fit"} /\ ret'.kwargs = None)
                => /\ ret'.exc = "ValueError"
                   /\ tuners'[t]._model = tuners[t]._model
                   /\ tuners'[t]._optimal_config = tuners[t]._optimal_config
          /\ (/\ ret'.target = t
              /\ ret'.op \in {"Tuner.evaluate", "Tuner.summary"}
              /\ tuners[t]._model = None)
                => ret'.exc = "ValueError"]_vars

\* A tuner that was never tuned stores the model of a build under a given
\* configuration, and the last call, a build without configuration, raised.
UntunedRaisesWitness ==
    /\ ret.op = "Tuner.build" /\ ret.kwargs = None /\ ret.exc = "ValueError"
    /\ ~tuners[ret.target].tuned
    /\ tuners[ret.target]._model # None
    /\ tuners[ret.target]._optimal_config = None

============================================================================
